---- MODULE Spec2Model ----
(***************************************************************************)
(* A model of postschema's compilation and authorization core:             *)
(*   - the Spec Filter   (postschema/__init__.py, PathsReturner)           *)
(*   - the Clause Algebra, the tier merge and the per-request              *)
(*     authorization state machine                                         *)
(*   - the Relationship Resolver (postschema/core.py,                      *)
(*     ViewMaker.process_relationships, driven by build_app)               *)
(*   - the View Synthesizer (ViewMaker.create_views, create_aux_views)     *)
(*   - Shield parsing (postschema/shield.py, parse_schemas)                *)
(*   - auxiliary views (ViewMaker.create_aux_views)                        *)
(*   - database provisioning (postschema/provision_db.py, setup_db)        *)
(*   - the password-reset form (postschema/__init__.py,                    *)
(*     reset_form_context)                                                 *)
(*   - the nested-select hook (postschema/hooks.py,                        *)
(*     translate_naive_nested)                                             *)
(* Each part has its own specification over the module's variables; the    *)
(* variables of the other parts stay at their idle values.                 *)
(***************************************************************************)
EXTENDS Integers, Sequences, FiniteSets, TLC

VARIABLES
    \* ---- Spec Filter ----
    json_spec,      \* PathsReturner.json_spec: the full API description
    roles,          \* PathsReturner.roles: () at construction, then set(session.roles)
    cache,          \* the lru_cache of paths_by_roles: key -> cached `out`
    filtered,       \* the local `spec` of the last evaluation that really ran
    response,       \* what the last evaluation of the property returned
    served,         \* "none" | "startup" | "request": who ran the last evaluation
    nreq,           \* number of /doc/spec.json requests served so far
    \* ---- Relationship Resolver (build_app) ----
    decls,          \* table -> the relationship-relevant part of _declared_fields
    noViews,        \* the tables whose Meta.create_views is False
    registryRetyped, \* TRUE when `registered_schemas @ table` answers the retyped class
    idx,            \* position of build_app's second loop over registered_schemas
    bstatus,        \* "building" | "done" | "failed"
    regCascade,     \* table -> _deletion_cascade of the registered schema class
    regCherry,      \* table -> _m2m_cherrypicks of the registered schema class
    viewCascade,    \* table -> _deletion_cascade of the retyped schema class
    viewCherry,     \* table -> _m2m_cherrypicks of the retyped schema class
    joins,          \* table -> joins: (field, linked schema, predicate template)
    whereStmts,     \* table -> _m2m_where_stmts: (field, statement)
    views,          \* the tables whose views have been created
    \* ---- Clause Algebra ----
    c1, c2,         \* the two clauses combined
    csess, crow,    \* the session and the row they are evaluated on
    cpc,            \* "start" | "operands" | "and" | "or" | "declared"
    ceval,          \* the results obtained so far
    \* ---- Tier merge and request authorization ----
    tierDecl,       \* tier -> the rule the resource declares for operation X
    cstatus,        \* "new" | "ok" | "ConfigurationError"
    authTable,      \* the merged AuthorizationTable entry of operation X
    req,            \* the request in flight: operation, session, row
    phase,          \* the request's state (section 4.4 of the design)
    matched,        \* the tier and clause the request matched
    stored,         \* TRUE once the request has reached the storage layer
    \* ---- View Synthesizer (ViewMaker.create_views / create_aux_views) ----
    vdecl,          \* the resource: Meta.route_base, Meta.excluded_ops, __aux_routes__
    vstatus,        \* "new" | "views" | "done" | "NameError"
    viewClasses,    \* view class name -> its methods (method name -> handler)
    routes,         \* the router's routes, in registration order
    vreq,           \* the request dispatched last
    vresp,          \* what that request resolved to
    \* ---- Shield parsing (shield.parse_schemas) ----
    sdecl,          \* the schema: Shield, Authed.permissions, Private.permissions
    sstatus,        \* "new" | "parsed" | "ValueError"
    shields,        \* schema_inst.shields: operation -> [roles, method]
    \* ---- Auxiliary views (ViewMaker.create_aux_views) ----
    adecl,          \* Meta.excluded_ops and the operations each auxiliary view declares
    astatus,        \* "new" | "done"
    auxClasses,     \* per auxiliary route: operation -> "own" | "reject"
    cellOp,         \* the generator's variable `op` the reject lambdas close over
    cellAllowed,    \* the generator's variable `allowed` the reject lambdas close over
    areq,           \* the request dispatched last: auxiliary route and operation
    aresp,          \* its answer
    \* ---- Database provisioning (provision_db.setup_db) ----
    retries,        \* the local `retries`
    time_wait,      \* the local `time_wait`
    conn,           \* the local `conn`: "unbound" | "broken" | "open" | "closed"
    connected,      \* TRUE once an attempt has succeeded
    slept,          \* the arguments of the sleep() calls made, in order
    attempts,       \* the number of connection attempts made
    dpc,            \* "loop" | "sleep" | "check" | "create" | "main" | "returned" | "raised"
    created,        \* what CREATE DATABASE did: "" | "created" | "already exists" | "raises"
    derror,         \* the exception setup_db ended with, "none" when none
    \* ---- Password reset (reset_form_context) ----
    resetKey,       \* redis: the hash at postschema:pass:reset:{checkcode}, or none
    verifyKey,      \* redis: the value at postschema:pass:verify:{swapcode}, or none
    rcode,          \* request -> the checkcode of its URL
    rdata,          \* request -> its local `data`
    rpc,            \* request -> "start" | "delete" | "set" | "returned" | "Unauthorized" | "NotFound"
    rswap,          \* request -> the swapcode it returned, "" when none
    \* ---- Hooks (hooks.translate_naive_nested) ----
    hschema,        \* schema_cls._nested_select_stmts: whether set, and the mapping
    hpayload,       \* the payload passed in: whether it has the extraction field, and its list
    hresult,        \* the payload returned
    hpc             \* "call" | "returned"

filterVars == <<json_spec, roles, cache, filtered, response, served, nreq>>

buildVars == <<decls, noViews, registryRetyped, idx, bstatus, regCascade, regCherry, viewCascade,
               viewCherry, joins, whereStmts, views>>

clauseVars == <<c1, c2, csess, crow, cpc, ceval>>

authVars == <<tierDecl, cstatus, authTable, req, phase, matched, stored>>

viewVars == <<vdecl, vstatus, viewClasses, routes, vreq, vresp>>

shieldVars == <<sdecl, sstatus, shields>>

auxVars == <<adecl, astatus, auxClasses, cellOp, cellAllowed, areq, aresp>>

dbVars == <<retries, time_wait, conn, connected, slept, attempts, dpc, created, derror>>

resetVars == <<resetKey, verifyKey, rcode, rdata, rpc, rswap>>

hookVars == <<hschema, hpayload, hresult, hpc>>

vars == <<filterVars, buildVars, clauseVars, authVars, viewVars, shieldVars, auxVars, dbVars, resetVars, hookVars>>

-----------------------------------------------------------------------------
(*                              SPEC FILTER                                *)
-----------------------------------------------------------------------------

\* Bound: number of /doc/spec.json requests in a run.
MaxRequests == 2

\* Roles a session can carry.
SessionRoles == {"Admin", "Owner", "Staff"}

\* The `security` entry an operation of the API description can carry:
\* none at all (a public operation), or [{'authed': [...]}].
SecChoices ==
    { [hasSec |-> FALSE, authed |-> {}],
      [hasSec |-> TRUE,  authed |-> {"*"}],
      [hasSec |-> TRUE,  authed |-> {"Owner"}],
      [hasSec |-> TRUE,  authed |-> {"Staff"}],
      [hasSec |-> TRUE,  authed |-> {"Owner", "Staff"}],
      [hasSec |-> TRUE,  authed |-> {"Manager"}] }

OpObj(method, sec, hasBody) ==
    [method |-> method, hasSec |-> sec.hasSec, authed |-> sec.authed,
     hasBody |-> hasBody]

\* The API descriptions the filter is run on: json_spec['paths'] as an
\* ordered mapping url -> ordered mapping method -> operation object.
SampleSpecs ==
    { << [url |-> "/clinic/",
          ops |-> << OpObj("get", s1, TRUE), OpObj("post", s2, TRUE) >>],
         [url |-> "/clinic/list/",
          ops |-> << OpObj("options", s3, TRUE) >>] >>
      : s1 \in SecChoices, s2 \in SecChoices,
        s3 \in { c \in SecChoices : c.authed \subseteq {"Staff"} } }

\* router.resources(): url, method of the first route, handler name.
RouterResources ==
    << [url |-> "/clinic/",      method |-> "*",    handler |-> "ClinicView"],
       [url |-> "/clinic/get/",  method |-> "POST", handler |-> "cls_view_get_copy"],
       [url |-> "/clinic/list/", method |-> "GET",  handler |-> "cls_view_list_copy"] >>

\* handler.__name__.replace('View', '') with its first letter lower-cased.
ViewName(handler) ==
    CASE handler = "ClinicView" -> "clinic"
      [] handler = "cls_view_get_copy" -> "cls_view_get_copy"
      [] handler = "cls_view_list_copy" -> "cls_view_list_copy"
      [] OTHER -> handler

\* tuple(self.roles): the elements of the role collection in iteration order.
\* A set's iteration order is not fixed by its contents.
RECURSIVE Perms(_)
Perms(S) ==
    IF S = {} THEN { <<>> }
    ELSE UNION { { <<x>> \o p : p \in Perms(S \ {x}) } : x \in S }

\* `'Admin' in self.roles` works on the tuple and on the set alike.
HasAdmin(r) == "Admin" \in r.elems

\* `authed & self.roles`: set & set is the intersection; set & tuple raises
\* TypeError.
IntersectRaises(r) == r.kind = "tuple"

\* Lines 202-207 for one operation: TRUE when the operation stays in `spec`.
\* KeyError (no 'security') and TypeError are suppressed, which leaves the
\* operation in place.
KeepsOp(op, r) ==
    IF ~op.hasSec THEN TRUE
    ELSE IF "*" \in op.authed \/ HasAdmin(r) THEN TRUE
    ELSE IF IntersectRaises(r) THEN TRUE
    ELSE (op.authed \cap r.elems) # {}

SelectOps(ops, r) == SelectSeq(ops, LAMBDA o : KeepsOp(o, r))

\* Lines 198-207: the deep copy of json_spec with the operations removed.
FilterSpec(js, r) ==
    [i \in 1..Len(js) |-> [url |-> js[i].url, ops |-> SelectOps(js[i].ops, r)]]

\* A copy of the description that shares the path objects with json_spec
\* (dict.copy()).
ShallowCopy(js) == [value |-> js, shared |-> TRUE]

\* spec = deepcopy(self.json_spec), line 197: an equal value that shares no
\* object with json_spec.
Deepcopy(js) == [value |-> js, shared |-> FALSE]

\* json_spec after the loop of lines 199-207 has deleted from `spec`: the
\* deletions reach json_spec only through objects the two share.
JsonSpecAfter(js, r) ==
    IF Deepcopy(js).shared THEN FilterSpec(Deepcopy(js).value, r) ELSE js

\* Lines 228-240 for one url: the entries of `out`; a KeyError (an operation
\* without requestBody) leaves the loop of this url.
RECURSIVE OutOfOps(_, _, _)
OutOfOps(ops, url, viewname) ==
    IF ops = <<>> THEN {}
    ELSE IF ~Head(ops).hasBody THEN {}
    ELSE { [view |-> viewname,
            method |-> IF Head(ops).method = "options" THEN "list"
                       ELSE Head(ops).method,
            url |-> url,
            authed |-> Head(ops).hasSec] }
         \cup OutOfOps(Tail(ops), url, viewname)

PathOps(spec, url) ==
    IF \E i \in 1..Len(spec) : spec[i].url = url
    THEN (CHOOSE p \in {spec[i] : i \in 1..Len(spec)} : p.url = url).ops
    ELSE <<>>

\* Lines 209-241: `out`, built from the router and the filtered spec.
OutOf(spec) ==
    UNION { OutOfOps(PathOps(spec, RouterResources[i].url),
                     RouterResources[i].url,
                     ViewName(RouterResources[i].handler))
            : i \in { j \in 1..Len(RouterResources) :
                        RouterResources[j].method \notin {"OPTIONS", "POST"} } }

\* One evaluation of the lru_cache'd property with self.roles = r and
\* tuple(self.roles) = key: a hit returns the stored value, a miss computes
\* and stores it.
PathsByRoles(r, key, who) ==
    /\ roles' = r
    /\ served' = who
    /\ IF key \in DOMAIN cache
       THEN /\ response' = cache[key]
            /\ UNCHANGED <<cache, filtered, json_spec>>
       ELSE /\ filtered' = [ran |-> TRUE, roles |-> r,
                            spec |-> FilterSpec(Deepcopy(json_spec).value, r)]
            /\ response' = OutOf(FilterSpec(Deepcopy(json_spec).value, r))
            /\ cache' = (key :> OutOf(FilterSpec(Deepcopy(json_spec).value, r))) @@ cache
            /\ json_spec' = JsonSpecAfter(json_spec, r)

\* setup_postschema, lines 368-369: the PathsReturner is built with the
\* default roles = () and the property is evaluated once.
Startup ==
    /\ served = "none"
    /\ PathsByRoles([kind |-> "tuple", elems |-> {}], <<>>, "startup")
    /\ UNCHANGED nreq

\* actor_apispec, lines 381-386.
ActorApispec ==
    /\ served # "none"
    /\ nreq < MaxRequests
    /\ \E R \in SUBSET SessionRoles : \E key \in Perms(R) :
          PathsByRoles([kind |-> "set", elems |-> R], key, "request")
    /\ nreq' = nreq + 1

-----------------------------------------------------------------------------
(*                 RELATIONSHIP RESOLVER (build_app)                       *)
-----------------------------------------------------------------------------

\* Bound: the number of declared fields in the whole registry.
MaxFields == 2

\* registered_schemas, in registration order (the __tablename__ of each).
Tables == << "product", "desc", "dist" >>

TableSet == { Tables[i] : i \in 1..Len(Tables) }

\* A table no schema is registered for.
GhostTable == "ghost"

\* The primary key column of every table of the model.
PkOf(t) == "id"

\* The names of the declared fields of a schema, in declaration order.
FieldNames == << "ref1", "ref2" >>

\* The classes of postschema.fields that process_relationships tells apart;
\* "Field" is any field that is no Relationship.
FieldKinds == { "ForeignResource", "ForeignResources", "AutoSessionForeignResource" }

FieldDecls ==
    { [kind |-> "Field", unique |-> FALSE, target |-> Tables[1]] }
    \cup { [kind |-> k, unique |-> u, target |-> t]
           : k \in FieldKinds, u \in BOOLEAN, t \in TableSet }
    \cup { [kind |-> k, unique |-> FALSE, target |-> GhostTable] : k \in FieldKinds }

\* ForeignResources ignores `unique`; one value of it is enough.
UsedFieldDecls == { d \in FieldDecls : d.kind = "ForeignResources" => ~d.unique }

SeqsOfLen(n) == [1..n -> UsedFieldDecls]

LenVecs ==
    { lv \in [1..Len(Tables) -> 0..Len(FieldNames)] :
        lv[1] + lv[2] + lv[3] <= MaxFields }

Registered(t) == t \in TableSet

\* The schemas declared with Meta.create_views = False: none, or the second
\* of the registry.
NoViewsChoices == { {}, {Tables[2]} }

\* The classes AutoImpliedForeignResource may derive from (fields.py): the
\* isinstance tests of process_relationships it passes.
ImpliedBases == { "Relationship", "ForeignResource", "AutoSessionForeignResource" }

\* Implied references: resolved through another field (from_column) of the
\* same schema.
ImpliedDecls ==
    { [kind |-> "AutoImpliedForeignResource", unique |-> FALSE, target |-> t,
       from_column |-> f, base |-> b]
      : t \in TableSet, f \in { FieldNames[i] : i \in 1..Len(FieldNames) }, b \in ImpliedBases }

\* The declarations of a schema with implied references: two fields, each
\* an implied reference or a plain ForeignResource.
ImpliedSchemas ==
    [1..Len(FieldNames) ->
        ImpliedDecls \cup { [kind |-> "ForeignResource", unique |-> FALSE, target |-> t]
                              : t \in TableSet }]

\* this_target with the table first.
ThisTargetTableFirst(t, fieldname) == << t, fieldname, PkOf(t) >>

\* this_target, linked_target and the cherry-pick entry (lines 255, 259, 272).
ThisTarget(t, fieldname) == << fieldname, t, PkOf(t) >>
LinkedTarget(d, fieldname) == << PkOf(d.target), d.target, fieldname >>
CherryPick(t, fieldname) == << t, fieldname, PkOf(t) >>

\* The filter of a ForeignResources field, f'{fieldname} ?& %({fieldname})s'
\* (line 284), written with an equality operator.
WhereStmtEquality(fieldname) == << fieldname, "=", fieldname >>

\* f'{fieldname} ?& %({fieldname})s' (line 284): column, operator, parameter.
WhereStmt(fieldname) == << fieldname, "?&", fieldname >>

\* f'{linked_table}.{{subkey}}=%({{fill}})s' (line 295): the join predicate
\* template of a ForeignResource field.
JoinTemplate(linked_table) == << linked_table, ".", "subkey", "=", "fill" >>

\* getattr(cls, attr, []) followed by cls.attr = ...: the attribute is kept
\* when set, and a fresh empty list otherwise (lines 261, 262).
EnsureList(attr, t) ==
    IF attr[t].has THEN attr ELSE [attr EXCEPT ![t] = [has |-> TRUE, items |-> <<>>]]

AppendTo(attr, t, e) == [attr EXCEPT ![t].items = Append(@, e)]

\* local_list.append(e): the local list is the registered class's own list
\* object when the attribute was set on entry (alias), a fresh list otherwise.
AppendLocal(h, t, e) ==
    IF h.local.alias
    THEN [h EXCEPT !.rc = AppendTo(h.rc, t, e)]
    ELSE [h EXCEPT !.local.items = Append(@, e)]

\* Lines 264-266: an AutoSessionForeignResource only gets a validator.
AutoSessionBranch(h, t, fieldname, d) == h

\* Lines 268-284: a ForeignResources field.
ForeignResourcesBranch(h, t, fieldname, d) ==
    [h EXCEPT !.rm = AppendTo(h.rm, d.target, CherryPick(t, fieldname)),
              !.wheres = @ \cup { << fieldname, WhereStmt(fieldname) >> }]

\* Lines 286-295: a ForeignResource field.
ForeignResourceBranch(h, t, fieldname, d) ==
    LET h1 == IF ~d.unique
              THEN [h EXCEPT !.rc = AppendTo(h.rc, d.target, ThisTarget(t, fieldname))]
              ELSE LET hl == AppendLocal(h, t, LinkedTarget(d, fieldname))
                   IN  [hl EXCEPT !.rc = AppendTo(hl.rc, d.target, ThisTarget(t, fieldname))]
    IN  [h1 EXCEPT !.joins = @ \cup { << fieldname, d.target, JoinTemplate(d.target) >> }]

\* An implied reference takes the branch of the class it derives from; no
\* branch looks at from_column.
ImpliedBranch(h, t, fieldname, d) ==
    CASE d.base = "AutoSessionForeignResource" -> AutoSessionBranch(h, t, fieldname, d)
      [] d.base = "ForeignResource" -> ForeignResourceBranch(h, t, fieldname, d)
      [] OTHER -> h

\* Lines 254-295 for one declared field.
ProcessField(h, t, fieldname, d) ==
    IF d.kind = "Field" THEN h
    ELSE IF ~Registered(d.target) THEN [h EXCEPT !.ok = FALSE]
    ELSE LET h0 == [h EXCEPT !.rc = EnsureList(h.rc, d.target),
                             !.rm = EnsureList(h.rm, d.target)]
         IN  CASE d.kind = "AutoSessionForeignResource" ->
                      AutoSessionBranch(h0, t, fieldname, d)
               [] d.kind = "ForeignResources" ->
                      ForeignResourcesBranch(h0, t, fieldname, d)
               [] d.kind = "ForeignResource" ->
                      ForeignResourceBranch(h0, t, fieldname, d)
               [] d.kind = "AutoImpliedForeignResource" ->
                      ImpliedBranch(h0, t, fieldname, d)
               [] OTHER -> h0

\* The loop of line 253 passing over a field whose target is not registered.
RECURSIVE ProcessFieldsSkipping(_, _, _, _)
ProcessFieldsSkipping(h, t, fs, i) ==
    IF i > Len(fs) THEN h
    ELSE LET h1 == ProcessField(h, t, FieldNames[i], fs[i])
         IN  ProcessFieldsSkipping(IF h1.ok THEN h1 ELSE h, t, fs, i + 1)

\* The loop of line 253 from field i on.
RECURSIVE ProcessFields(_, _, _, _)
ProcessFields(h, t, fs, i) ==
    IF i > Len(fs) \/ ~h.ok THEN h
    ELSE ProcessFields(ProcessField(h, t, FieldNames[i], fs[i]), t, fs, i + 1)

\* Lines 241-300: process_relationships of table t on the lists rc, rm.
ProcessRelationships(t, fs, rc, rm) ==
    ProcessFields([rc |-> rc, rm |-> rm,
                   local  |-> [alias |-> rc[t].has, items |-> <<>>],
                   localm |-> [alias |-> rm[t].has, items |-> <<>>],
                   joins |-> {}, wheres |-> {}, ok |-> TRUE],
                  t, fs, 1)

\* retype_schema(schema_cls, new_schema_methods): the retyped class carries
\* the local lists (lines 297-299).
Retyped(l) == [made |-> TRUE, alias |-> l.alias, items |-> l.items]

\* The list the registry answers for table t once t is retyped (line 299):
\* the registered class's own when the registry keeps that class, the retyped
\* class's when the registry is handed the new class (retype_schema, utils.py).
Reregistered(updated, reg, l, t) ==
    IF updated /\ ~l.alias
    THEN [reg EXCEPT ![t] = [has |-> TRUE, items |-> l.items]]
    ELSE reg

\* The list of the class t is retyped to (lines 297-299): once the registry
\* answers the retyped class, that class's list is the registry's.
RetypedIn(updated, l) ==
    IF updated THEN [made |-> TRUE, alias |-> TRUE, items |-> <<>>] ELSE Retyped(l)

\* ViewMaker.omit_me (lines 222-224): not Meta.create_views.
OmitMe(t) == t \in noViews

\* A pass of the loop that tests omit_me (line 372) before it processes the
\* relationships: a schema without views is passed over altogether.
BuildSchemaOmittingFirst ==
    /\ bstatus = "building"
    /\ idx <= Len(Tables)
    /\ LET t == Tables[idx]
           h == ProcessRelationships(t, decls[t], regCascade, regCherry)
       IN  IF OmitMe(t)
           THEN /\ idx' = idx + 1
                /\ bstatus' = IF idx = Len(Tables) THEN "done" ELSE "building"
                /\ UNCHANGED <<decls, noViews, registryRetyped, regCascade, regCherry,
                               viewCascade, viewCherry, joins, whereStmts, views>>
           ELSE IF ~h.ok
           THEN /\ bstatus' = "failed"
                /\ regCascade' = h.rc
                /\ regCherry' = h.rm
                /\ UNCHANGED <<decls, noViews, registryRetyped, idx, viewCascade,
                               viewCherry, joins, whereStmts, views>>
           ELSE /\ regCascade' = Reregistered(registryRetyped, h.rc, h.local, t)
                /\ regCherry' = Reregistered(registryRetyped, h.rm, h.localm, t)
                /\ viewCascade' = [viewCascade EXCEPT ![t] = RetypedIn(registryRetyped, h.local)]
                /\ viewCherry' = [viewCherry EXCEPT ![t] = RetypedIn(registryRetyped, h.localm)]
                /\ joins' = [joins EXCEPT ![t] = h.joins]
                /\ whereStmts' = [whereStmts EXCEPT ![t] = h.wheres]
                /\ views' = views \cup {t}
                /\ idx' = idx + 1
                /\ bstatus' = IF idx = Len(Tables) THEN "done" ELSE "building"
                /\ UNCHANGED <<decls, noViews, registryRetyped>>

\* One pass of the loop of build_app, lines 366-384.
BuildSchema ==
    /\ bstatus = "building"
    /\ idx <= Len(Tables)
    /\ LET t == Tables[idx]
           h == ProcessRelationships(t, decls[t], regCascade, regCherry)
       IN  IF ~h.ok
           THEN /\ bstatus' = "failed"
                /\ regCascade' = h.rc
                /\ regCherry' = h.rm
                /\ UNCHANGED <<decls, noViews, registryRetyped, idx, viewCascade,
                               viewCherry, joins, whereStmts, views>>
           ELSE /\ regCascade' = Reregistered(registryRetyped, h.rc, h.local, t)
                /\ regCherry' = Reregistered(registryRetyped, h.rm, h.localm, t)
                /\ viewCascade' = [viewCascade EXCEPT ![t] = RetypedIn(registryRetyped, h.local)]
                /\ viewCherry' = [viewCherry EXCEPT ![t] = RetypedIn(registryRetyped, h.localm)]
                /\ joins' = [joins EXCEPT ![t] = h.joins]
                /\ whereStmts' = [whereStmts EXCEPT ![t] = h.wheres]
                /\ views' = IF OmitMe(t) THEN views ELSE views \cup {t}
                /\ idx' = idx + 1
                /\ bstatus' = IF idx = Len(Tables) THEN "done" ELSE "building"
                /\ UNCHANGED <<decls, noViews, registryRetyped>>

\* The orders in which the registry can hold the registered schemas.
RegistryOrders ==
    { o \in [1..Len(Tables) -> TableSet] : \A i, j \in 1..Len(Tables) : i # j => o[i] # o[j] }

\* The loop of build_app (lines 366-369) over the registry in the given
\* order, from position i on: st holds the lists of the registered classes
\* (rc, rm) and of the retyped classes (vc, vm).
RECURSIVE CompileFrom(_, _, _, _)
CompileFrom(order, updated, i, st) ==
    IF i > Len(order) \/ ~st.ok THEN st
    ELSE LET t == order[i]
             h == ProcessRelationships(t, decls[t], st.rc, st.rm)
         IN  IF ~h.ok
             THEN [st EXCEPT !.ok = FALSE, !.rc = h.rc, !.rm = h.rm]
             ELSE CompileFrom(order, updated, i + 1,
                      [rc |-> Reregistered(updated, h.rc, h.local, t),
                       rm |-> Reregistered(updated, h.rm, h.localm, t),
                       vc |-> [st.vc EXCEPT ![t] = RetypedIn(updated, h.local)],
                       vm |-> [st.vm EXCEPT ![t] = RetypedIn(updated, h.localm)],
                       ok |-> TRUE])

\* The _deletion_cascade / _m2m_cherrypicks list the retyped class of t holds.
ViewList(view, reg, t) == IF view[t].alias THEN reg[t].items ELSE view[t].items

NoList == [has |-> FALSE, items |-> <<>>]
NoView == [made |-> FALSE, alias |-> FALSE, items |-> <<>>]

\* build_app's loop over the whole registry in the given order.
Compile(order, updated) ==
    CompileFrom(order, updated, 1,
                [rc |-> [t \in TableSet |-> NoList], rm |-> [t \in TableSet |-> NoList],
                 vc |-> [t \in TableSet |-> NoView], vm |-> [t \in TableSet |-> NoView],
                 ok |-> TRUE])

-----------------------------------------------------------------------------
(*                          CLAUSE ALGEBRA                                 *)
(* The clause classes (auth/clauses.py) are not part of the sources at     *)
(* hand; the algebra follows section 4.1 of the design, and the declared   *)
(* rule is the one of the PermClauseTester schema.                         *)
-----------------------------------------------------------------------------

ActorIds == {7, 42}

\* The rows of permclausetester the clauses are sampled on.
Rows == [owner : ActorIds, int1 : {5, 10}, int2 : {15, 20}]

Sessions == [actor_id : ActorIds]

\* A node of a clause tree. Leaves have no kids; composites have two.
Node(op, attr, cmp, sattr, k, kids) ==
    [op |-> op, attr |-> attr, cmp |-> cmp, sattr |-> sattr, k |-> k, kids |-> kids]

\* CheckedPermClause('self.<attr> = session.<sattr>')
CheckedPermClause(attr, sattr) == Node("checked", attr, "=", sattr, 0, <<>>)

\* OpenPermClause('<table>.<attr> <cmp> <k>')
OpenPermClause(attr, cmp, k) == Node("open", attr, cmp, "", k, <<>>)

\* C1 & C2 and C1 | C2 build a new composite and leave the operands alone.
And(a, b) == Node("and", "", "", "", 0, <<a, b>>)

Or(a, b) == Node("or", "", "", "", 0, <<a, b>>)

\* The absence of a clause (None) and the tokens of the two operators.
NoClause == Node("none", "", "", "", 0, <<>>)

AndTok == Node("&", "", "", "", 0, <<>>)

OrTok == Node("|", "", "", "", 0, <<>>)

Compare(x, cmp, k) ==
    CASE cmp = ">=" -> x >= k
      [] cmp = "<"  -> x < k
      [] cmp = "="  -> x = k
      [] OTHER      -> FALSE

\* The same evaluator with the AND combinator answering as OR does.
RECURSIVE EvaluateAndAsOr(_, _, _)
EvaluateAndAsOr(c, s, r) ==
    CASE c.op = "none"    -> TRUE
      [] c.op = "checked" -> r[c.attr] = s[c.sattr]
      [] c.op = "open"    -> Compare(r[c.attr], c.cmp, c.k)
      [] c.op = "and"     -> IF EvaluateAndAsOr(c.kids[1], s, r) THEN TRUE
                             ELSE EvaluateAndAsOr(c.kids[2], s, r)
      [] c.op = "or"      -> IF EvaluateAndAsOr(c.kids[1], s, r) THEN TRUE
                             ELSE EvaluateAndAsOr(c.kids[2], s, r)
      [] OTHER            -> FALSE

\* evaluate(clause, session, row): AND stops at the first false operand, OR
\* at the first true one.
RECURSIVE EvaluateClause(_, _, _)
EvaluateClause(c, s, r) ==
    CASE c.op = "none"    -> TRUE
      [] c.op = "checked" -> r[c.attr] = s[c.sattr]
      [] c.op = "open"    -> Compare(r[c.attr], c.cmp, c.k)
      [] c.op = "and"     -> IF ~EvaluateClause(c.kids[1], s, r) THEN FALSE
                             ELSE EvaluateClause(c.kids[2], s, r)
      [] c.op = "or"      -> IF EvaluateClause(c.kids[1], s, r) THEN TRUE
                             ELSE EvaluateClause(c.kids[2], s, r)
      [] OTHER            -> FALSE

OwnerIsActor == CheckedPermClause("owner", "actor_id")

Int1AtLeast10 == OpenPermClause("int1", ">=", 10)

Int2Below20 == OpenPermClause("int2", "<", 20)

\* A clause no row satisfies.
Never == OpenPermClause("int1", "never", 0)

LeafClauses == { OwnerIsActor, Int1AtLeast10, Int2Below20 }

ClauseSamples ==
    LeafClauses \cup { And(a, b) : a, b \in LeafClauses } \cup { Or(a, b) : a, b \in LeafClauses }

\* The expression of the patch rule as written, operand and operator tokens
\* from left to right.
PatchRuleTokens == << OwnerIsActor, AndTok, Int1AtLeast10, OrTok, Int2Below20 >>

\* How the language groups an expression of & and |: & binds tighter than |
\* and both associate to the left.
RECURSIVE ParseFrom(_, _, _, _, _)
ParseFrom(toks, i, hasOr, orAcc, andAcc) ==
    IF i > Len(toks)
    THEN IF hasOr THEN Or(orAcc, andAcc) ELSE andAcc
    ELSE IF toks[i].op = "&"
         THEN ParseFrom(toks, i + 2, hasOr, orAcc, And(andAcc, toks[i + 1]))
         ELSE ParseFrom(toks, i + 2, TRUE,
                        IF hasOr THEN Or(orAcc, andAcc) ELSE andAcc, toks[i + 1])

ParseRule(toks) == ParseFrom(toks, 2, FALSE, toks[1], toks[1])

\* permissions.patch['Owner'] of PermClauseTester
PatchRule == ParseRule(PatchRuleTokens)

EvalOperands ==
    /\ cpc = "start"
    /\ ceval' = [ceval EXCEPT !.e1 = EvaluateClause(c1, csess, crow),
                              !.e2 = EvaluateClause(c2, csess, crow)]
    /\ cpc' = "operands"
    /\ UNCHANGED <<c1, c2, csess, crow>>

EvalAnd ==
    /\ cpc = "operands"
    /\ ceval' = [ceval EXCEPT !.and = EvaluateClause(And(c1, c2), csess, crow)]
    /\ cpc' = "and"
    /\ UNCHANGED <<c1, c2, csess, crow>>

EvalOr ==
    /\ cpc = "and"
    /\ ceval' = [ceval EXCEPT !.or = EvaluateClause(Or(c1, c2), csess, crow)]
    /\ cpc' = "or"
    /\ UNCHANGED <<c1, c2, csess, crow>>

EvalDeclared ==
    /\ cpc = "or"
    /\ ceval' = [ceval EXCEPT !.declared = EvaluateClause(PatchRule, csess, crow)]
    /\ cpc' = "declared"
    /\ UNCHANGED <<c1, c2, csess, crow>>

-----------------------------------------------------------------------------
(*                 TIER MERGE AND REQUEST AUTHORIZATION                    *)
(* The permission builder (auth/perms.py) and the views (view.py) are not  *)
(* part of the sources at hand; the merge follows sections 4.2 and 4.4 of  *)
(* the design, the request follows the state machine of section 4.4.       *)
-----------------------------------------------------------------------------

Tiers == { "Public", "Authed", "Private" }

\* The configured roles a rule may name.
SystemRoles == { "Owner", "Staff" }

\* The clause a rule may put on a role.
RuleClauses(r) == IF r = "Owner" THEN { NoClause, OwnerIsActor, Never } ELSE { NoClause }

\* What a tier may declare for operation X: nothing, '*', or a mapping
\* role -> clause, the empty mapping {} included.
Absent == [declared |-> FALSE, star |-> FALSE, map |-> <<>>]

Star == [declared |-> TRUE, star |-> TRUE, map |-> <<>>]

Mappings ==
    UNION { { m \in [R -> { NoClause, OwnerIsActor, Never }] : \A r \in R : m[r] \in RuleClauses(r) } :
            R \in SUBSET SystemRoles }

TierRules == { Absent, Star } \cup { [declared |-> TRUE, star |-> FALSE, map |-> m] : m \in Mappings }

IsEmptyMapping(rule) == rule.declared /\ ~rule.star /\ DOMAIN rule.map = {}

\* An empty mapping read as a grant to every role.
ExpandEmptyAsAll(rule) ==
    IF rule.star \/ IsEmptyMapping(rule) THEN [r \in SystemRoles |-> NoClause] ELSE rule.map

\* '*' expands to all configured roles; a mapping grants what it names.
Expand(rule) ==
    IF rule.star THEN [r \in SystemRoles |-> NoClause] ELSE rule.map

\* No declaration is ever found in conflict.
ConflictNever(td) == FALSE

\* Two tiers declare the operation for overlapping roles.
Conflict(td) ==
    \E t1, t2 \in Tiers :
        /\ t1 # t2
        /\ (DOMAIN Expand(td[t1])) \cap (DOMAIN Expand(td[t2])) # {}

\* The merge with the most trusted declaring tier replacing the others.
MergePreferring(td) ==
    LET t == IF td["Private"].declared THEN "Private"
             ELSE IF td["Authed"].declared THEN "Authed" ELSE "Public"
    IN  [r \in DOMAIN Expand(td[t]) |-> [tier |-> t, clause |-> Expand(td[t])[r]]]

\* The union of the tiers' rules: role -> the tier granting it and its clause.
Merge(td) ==
    LET granted == UNION { DOMAIN Expand(td[t]) : t \in Tiers }
    IN  [r \in granted |->
            LET t == CHOOSE u \in Tiers : r \in DOMAIN Expand(td[u])
            IN  [tier |-> t, clause |-> Expand(td[t])[r]]]

\* Compilation of the resource's permissions: a conflict aborts it.
Synthesize ==
    /\ cstatus = "new"
    /\ IF Conflict(tierDecl)
       THEN /\ cstatus' = "ConfigurationError"
            /\ UNCHANGED authTable
       ELSE /\ cstatus' = "ok"
            /\ authTable' = Merge(tierDecl)
    /\ UNCHANGED <<tierDecl, req, phase, matched, stored>>

\* The operations requested: X is the declared one, Y has no rule in any tier.
Operations == { "X", "Y" }

AuthRows == { r \in Rows : r.int1 = 5 /\ r.int2 = 15 }

NoRequest == [op |-> "", role |-> "", actor_id |-> 0, row |-> [owner |-> 0, int1 |-> 0, int2 |-> 0]]

NoMatch == [tier |-> "", clause |-> NoClause, result |-> FALSE]

TableOf(op) == IF op = "X" THEN authTable ELSE <<>>

Receive ==
    /\ cstatus = "ok"
    /\ phase = "Idle"
    /\ \E op \in Operations, role \in SystemRoles, a \in ActorIds, row \in AuthRows :
          req' = [op |-> op, role |-> role, actor_id |-> a, row |-> row]
    /\ phase' = "Unauthenticated"
    /\ UNCHANGED <<tierDecl, cstatus, authTable, matched, stored>>

ResolveRole ==
    /\ phase = "Unauthenticated"
    /\ phase' = "RoleResolved"
    /\ UNCHANGED <<tierDecl, cstatus, authTable, req, matched, stored>>

MatchTier ==
    /\ phase = "RoleResolved"
    /\ IF req.role \in DOMAIN TableOf(req.op)
       THEN /\ phase' = "TierMatched"
            /\ matched' = [tier |-> TableOf(req.op)[req.role].tier,
                           clause |-> TableOf(req.op)[req.role].clause,
                           result |-> FALSE]
       ELSE /\ phase' = "Denied"
            /\ UNCHANGED matched
    /\ UNCHANGED <<tierDecl, cstatus, authTable, req, stored>>

EvalClause ==
    /\ phase = "TierMatched"
    /\ matched' = [matched EXCEPT
                     !.result = EvaluateClause(matched.clause, [actor_id |-> req.actor_id], req.row)]
    /\ phase' = "ClauseEvaluated"
    /\ UNCHANGED <<tierDecl, cstatus, authTable, req, stored>>

Decide ==
    /\ phase = "ClauseEvaluated"
    /\ phase' = IF matched.result THEN "Permitted" ELSE "Denied"
    /\ UNCHANGED <<tierDecl, cstatus, authTable, req, matched, stored>>

\* Storage reached as soon as a tier matched.
CanAccessStorageOnMatch(p) == p \in { "TierMatched", "Permitted" }

\* The storage layer is reached by a permitted request only.
CanAccessStorage(p) == p = "Permitted"

StorageAccess ==
    /\ CanAccessStorage(phase)
    /\ ~stored
    /\ stored' = TRUE
    /\ UNCHANGED <<tierDecl, cstatus, authTable, req, phase, matched>>

-----------------------------------------------------------------------------
(*          VIEW SYNTHESIZER (create_views, create_aux_views)              *)
(* URLs and names are sequences of tokens: "/" is the slash, "list" and    *)
(* "get" are these words, the other tokens are single letters.             *)
-----------------------------------------------------------------------------

\* Bound: the number of tokens of an auxiliary route name.
MaxNameLen == 3

\* The operations ViewsTemplate defines (view.py): create, read-one, list,
\* patch, replace, delete.
CanonicalOps == { "post", "get", "list", "patch", "put", "delete" }

\* The values of Meta.excluded_ops sampled.
ExcludedChoices == SUBSET { "get", "list", "put" }

\* schema_cls.__name__
SchemaName == << "A", "b" >>

\* str.lower() on one token.
LowerTok(k) == CASE k = "A" -> "a" [] k = "B" -> "b" [] OTHER -> k

Lower(sq) == [i \in 1..Len(sq) |-> LowerTok(sq[i])]

\* str.replace(tok, '')
RECURSIVE Remove(_, _)
Remove(sq, tok) ==
    IF sq = <<>> THEN <<>>
    ELSE IF Head(sq) = tok THEN Remove(Tail(sq), tok)
    ELSE <<Head(sq)>> \o Remove(Tail(sq), tok)

StartsWith(sq, pre) == Len(sq) >= Len(pre) /\ SubSeq(sq, 1, Len(pre)) = pre

EndsWith(sq, suf) ==
    Len(sq) >= Len(suf) /\ SubSeq(sq, Len(sq) - Len(suf) + 1, Len(sq)) = suf

SeqsUpTo(S, n) == UNION { [1..k -> S] : k \in 1..n }

\* The values of Meta.route_base sampled; declared = FALSE when Meta has none.
RouteBaseChoices ==
    { [declared |-> FALSE, value |-> <<>>] }
    \cup { [declared |-> TRUE, value |-> v] : v \in SeqsUpTo({ "/", "a", "B" }, 2) }

\* The names of __aux_routes__ sampled.
AuxNames == SeqsUpTo({ "/", "list", "x" }, MaxNameLen)

\* __aux_routes__: no auxiliary route, or one.
AuxChoices == { <<>> } \cup { << n >> : n \in AuxNames }

\* rebase_metaclass: meta_methods.setdefault('route_base', __name__.lower())
RebaseMetaclass(d) == IF d.route_base.declared THEN d.route_base.value ELSE Lower(SchemaName)

\* A route base that keeps its slashes.
RouteBaseKeepingSlashes(d) == Lower(RebaseMetaclass(d))

\* route_base = self.meta_cls.route_base.replace('/', '').lower()
RouteBase(d) == Lower(Remove(RebaseMetaclass(d), "/"))

\* self.base_resource_url = f'/{route_base}/'
BaseResourceUrl(d) == << "/" >> \o RouteBase(d) \o << "/" >>

\* view_methods: the methods of ViewsTemplate that are not excluded.
ViewMethods(d) == [op \in CanonicalOps \ d.excluded |-> "ViewsTemplate"]

\* A class: the attributes of its own __dict__ and those it inherits.
Class(own, inherited) == [own |-> own, inherited |-> inherited]

\* Attribute lookup on a class.
Attrs(c) == c.own @@ c.inherited

\* popattr(cls, attr): delattr under suppress(AttributeError) removes an
\* attribute of the class's own __dict__ and nothing else.
Popattr(c, attr) ==
    IF attr \in DOMAIN c.own
    THEN [c EXCEPT !.own = [a \in DOMAIN c.own \ {attr} |-> c.own[a]]]
    ELSE c

\* METH_ALL of aiohttp.hdrs, lower-cased, but 'get'.
MethAllButGet == { "connect", "head", "delete", "options", "patch", "post", "put", "trace" }

RECURSIVE PopAll(_, _)
PopAll(c, attrs) ==
    IF attrs = {} THEN c
    ELSE LET a == CHOOSE x \in attrs : TRUE IN PopAll(Popattr(c, a), attrs \ {a})

SetAttr(c, attr, v) == [c EXCEPT !.own = (attr :> v) @@ c.own]

ClsView(d) == Class(ViewMethods(d), <<>>)

\* class cls_view_get_copy(cls_view), its methods popped, post = get_proxy
ClsViewGetCopy(d) ==
    SetAttr(PopAll(Class(<<>>, Attrs(ClsView(d))), MethAllButGet), "post", "get_proxy")

\* class cls_view_list_copy(cls_view_get_copy), post popped, get = list_proxy
ClsViewListCopy(d) ==
    SetAttr(Popattr(Class(<<>>, Attrs(ClsViewGetCopy(d))), "post"), "get", "list_proxy")

Route(method, url, view, kind) == [method |-> method, url |-> url, view |-> view, kind |-> kind]

\* if 'list' not in self.excluded_ops: ... router.add_get(... + 'list/', ...)
ListRoute(d) ==
    IF "list" \notin d.excluded
    THEN << Route("GET", BaseResourceUrl(d) \o << "list", "/" >>, "cls_view_list_copy", "own") >>
    ELSE <<>>

\* create_views: the view classes and the three routes of the resource.
CreateViews ==
    /\ vstatus = "new"
    /\ viewClasses' =
          ("cls_view" :> Attrs(ClsView(vdecl)))
          @@ ("cls_view_get_copy" :> Attrs(ClsViewGetCopy(vdecl)))
          @@ (IF "list" \notin vdecl.excluded
              THEN ("cls_view_list_copy" :> Attrs(ClsViewListCopy(vdecl)))
              ELSE <<>>)
    /\ routes' = << Route("*", BaseResourceUrl(vdecl), "cls_view", "own"),
                    Route("POST", BaseResourceUrl(vdecl) \o << "get", "/" >>,
                          "cls_view_get_copy", "own") >>
                 \o ListRoute(vdecl)
    /\ vstatus' = "views"
    /\ UNCHANGED <<vdecl, vreq, vresp>>

\* routename as create_aux_views normalises it (lines 192-195).
NormalisedAuxName(n) ==
    LET n1 == IF StartsWith(n, << "/" >>) THEN Tail(n) ELSE n
    IN  IF EndsWith(n1, << "/" >>) THEN n1 ELSE n1 \o << "/" >>

\* if routename.endswith('/list/'): raise NameError
IllegalAuxName(n) == EndsWith(n, << "/", "list", "/" >>)

\* The loop of create_aux_views from route i on: the routes added, and
\* whether a NameError ended it.
RECURSIVE AuxRoutesFrom(_, _, _)
AuxRoutesFrom(d, i, acc) ==
    IF i > Len(d.aux) THEN [ok |-> TRUE, routes |-> acc]
    ELSE LET n == NormalisedAuxName(d.aux[i])
         IN  IF IllegalAuxName(n) THEN [ok |-> FALSE, routes |-> acc]
             ELSE AuxRoutesFrom(d, i + 1,
                     Append(acc, Route("*", BaseResourceUrl(d) \o n, "aux", "aux")))

\* tuple(post_view.create_aux_views(cls_view, aux_perm_builder))
CreateAuxViews ==
    /\ vstatus = "views"
    /\ LET r == AuxRoutesFrom(vdecl, 1, <<>>)
       IN  /\ routes' = routes \o r.routes
           /\ vstatus' = IF r.ok THEN "done" ELSE "NameError"
    /\ UNCHANGED <<vdecl, viewClasses, vreq, vresp>>

\* The requests dispatched: a method and one of the resource's URLs.
RequestMethods == { "GET", "POST" }

OwnUrls(d) ==
    { BaseResourceUrl(d),
      BaseResourceUrl(d) \o << "get", "/" >>,
      BaseResourceUrl(d) \o << "list", "/" >> }

MethodAttr(m) == IF m = "GET" THEN "get" ELSE "post"

\* The first route of the router that serves (method, url), 0 when none.
FirstRoute(m, url) ==
    LET hits == { i \in 1..Len(routes) :
                    routes[i].url = url /\ routes[i].method \in { "*", m } }
    IN  IF hits = {} THEN 0 ELSE CHOOSE i \in hits : \A j \in hits : i <= j

NoRequestYet == [method |-> "", url |-> <<>>]

NoResponse == [status |-> "", op |-> "", handler |-> ""]

\* What a handler does: a proxy sets self._method and calls self.<op>(); a
\* method of ViewsTemplate runs as the operation it is named after.
RunHandler(cls, attr) ==
    LET h == cls[attr]
    IN  CASE h = "get_proxy" ->
                IF "get" \in DOMAIN cls /\ cls["get"] = "ViewsTemplate"
                THEN [status |-> "ok", op |-> "get", handler |-> "ViewsTemplate.get"]
                ELSE IF "get" \in DOMAIN cls
                THEN [status |-> "ok", op |-> "get", handler |-> cls["get"]]
                ELSE [status |-> "AttributeError", op |-> "get", handler |-> ""]
          [] h = "list_proxy" ->
                IF "list" \in DOMAIN cls
                THEN [status |-> "ok", op |-> "list", handler |-> "ViewsTemplate.list"]
                ELSE [status |-> "AttributeError", op |-> "list", handler |-> ""]
          [] OTHER -> [status |-> "ok", op |-> attr, handler |-> "ViewsTemplate." \o attr]

\* web.View dispatch: no route is NotFound, no method of that name on the
\* view is MethodNotAllowed.
Resolve(m, url) ==
    LET i == FirstRoute(m, url)
    IN  IF i = 0 THEN [status |-> "NotFound", op |-> "", handler |-> ""]
        ELSE IF routes[i].kind = "aux" THEN [status |-> "aux", op |-> "", handler |-> ""]
        ELSE LET cls == viewClasses[routes[i].view]
             IN  IF MethodAttr(m) \notin DOMAIN cls
                 THEN [status |-> "MethodNotAllowed", op |-> "", handler |-> ""]
                 ELSE RunHandler(cls, MethodAttr(m))

Dispatch ==
    /\ vstatus = "done"
    /\ \E m \in RequestMethods, url \in OwnUrls(vdecl) :
          /\ vreq' = [method |-> m, url |-> url]
          /\ vresp' = Resolve(m, url)
    /\ UNCHANGED <<vdecl, vstatus, viewClasses, routes>>

-----------------------------------------------------------------------------
(*                 SHIELD PARSING (shield.parse_schemas)                   *)
-----------------------------------------------------------------------------

\* Bound: the number of entries of the Shield rule of operation post.
MaxEntries == 2

\* system_roles, as handed to parse_schemas.
ShieldSystemRoles == { "Staff", "Doctor" }

\* The key of a Shield entry: a role name, '*', or a tuple of role names.
RoleKey(name) == [tuple |-> FALSE, names |-> << name >>]

TupleKey(names) == [tuple |-> TRUE, names |-> names]

\* The entries (roles -> method) sampled; Ghost is no system role and
\* email is no shield method.
ShieldEntries ==
    { [key |-> RoleKey("Staff"), method |-> "otp"],
      [key |-> RoleKey("Doctor"), method |-> "sms"],
      [key |-> RoleKey("Doctor"), method |-> "otp"],
      [key |-> RoleKey("Ghost"), method |-> "otp"],
      [key |-> RoleKey("*"), method |-> "otp"],
      [key |-> RoleKey("Staff"), method |-> "email"],
      [key |-> TupleKey(<< "Staff", "Doctor" >>), method |-> "otp"],
      [key |-> TupleKey(<< "Staff", "Ghost" >>), method |-> "sms"] }

\* A dict of entries, in insertion order, its keys distinct.
ShieldDicts(n) ==
    UNION { { sq \in [1..k -> ShieldEntries] :
                \A i, j \in 1..k : i # j => sq[i].key # sq[j].key } : k \in 0..n }

\* The second operation the Shield class names, next to post.
OtherShieldOps == { "patch", "update", "delete" }

\* The Shield classes sampled: operation -> dict.
ShieldClasses ==
    { ("post" :> a) @@ (o :> b) : a \in ShieldDicts(MaxEntries), o \in OtherShieldOps,
                                  b \in ShieldDicts(1) }

\* The names of Authed.permissions and of Private.permissions sampled.
AuthedPermissions == SUBSET { "post", "update" }

PrivatePermissions == SUBSET { "delete" }

\* Every operation the Shield names is taken as present.
PresentOpsOfShield(d) == DOMAIN d.shield

\* present_ops (lines 8-17): the names of the Authed and Private
\* permissions, update replaced by patch and put, read by get and list.
PresentOps(d) ==
    LET all == d.authed \cup d.private
        upd == IF "update" \in all THEN (all \ { "update" }) \cup { "patch", "put" } ELSE all
    IN  IF "read" \in upd THEN (upd \ { "read" }) \cup { "get", "list" } ELSE upd

\* The orders a list built from a set may have.
Orders(S) == { sq \in [1..Cardinality(S) -> S] : \A i, j \in 1..Cardinality(S) : i # j => sq[i] # sq[j] }

NamesOf(key) == { key.names[i] : i \in 1..Len(key.names) }

\* Lines 23-35: whether the key names an invalid role.
InvalidRoles(key) ==
    IF key.tuple THEN \E r \in NamesOf(key) : r \notin ShieldSystemRoles
    ELSE IF key.names[1] = "*" THEN FALSE
    ELSE key.names[1] \notin ShieldSystemRoles

\* Lines 28-35: allowed_roles.
AllowedRoles(key) ==
    IF key.tuple THEN NamesOf(key)
    ELSE IF key.names[1] = "*" THEN ShieldSystemRoles
    ELSE { key.names[1] }

\* Line 39: schema_inst.shields[op] = [allowed_roles, shield_op]
Record(sh, op, e) == (op :> [roles |-> AllowedRoles(e.key), method |-> e.method]) @@ sh

\* Lines 22-39: the entries of one operation's dict, from entry j on.
RECURSIVE ParseEntries(_, _, _, _)
ParseEntries(dict, j, op, sh) ==
    IF j > Len(dict) THEN [ok |-> TRUE, shields |-> sh]
    ELSE IF InvalidRoles(dict[j].key) THEN [ok |-> FALSE, shields |-> sh]
    ELSE IF dict[j].method \notin { "otp", "sms" } THEN [ok |-> FALSE, shields |-> sh]
    ELSE ParseEntries(dict, j + 1, op, Record(sh, op, dict[j]))

\* Lines 19-21: the operations of present_ops in the order given, from i on.
RECURSIVE ParseOps(_, _, _, _)
ParseOps(d, order, i, sh) ==
    IF i > Len(order) THEN [ok |-> TRUE, shields |-> sh]
    ELSE LET op == order[i]
             dict == IF op \in DOMAIN d.shield THEN d.shield[op] ELSE <<>>
             r == ParseEntries(dict, 1, op, sh)
         IN  IF ~r.ok THEN r ELSE ParseOps(d, order, i + 1, r.shields)

\* parse_schemas for the schema; present_ops is a list built from a set.
ParseSchemas ==
    /\ sstatus = "new"
    /\ \E order \in Orders(PresentOps(sdecl)) :
          LET r == ParseOps(sdecl, order, 1, <<>>)
          IN  /\ shields' = r.shields
              /\ sstatus' = IF r.ok THEN "parsed" ELSE "ValueError"
    /\ UNCHANGED sdecl

-----------------------------------------------------------------------------
(*            AUXILIARY VIEWS (ViewMaker.create_aux_views)                 *)
-----------------------------------------------------------------------------

\* Bound: the number of entries of __aux_routes__.
MaxAuxRoutes == 2

\* all_ops = ['post', 'get', 'patch', 'put', 'delete'] (line 185).
AllOps == << "post", "get", "patch", "put", "delete" >>

AllOpsSet == { AllOps[k] : k \in 1..Len(AllOps) }

\* str.upper() on an operation name.
UpperOp(op) ==
    CASE op = "post" -> "POST" [] op = "get" -> "GET" [] op = "patch" -> "PATCH"
      [] op = "put" -> "PUT" [] op = "delete" -> "DELETE" [] OTHER -> op

\* The operations an auxiliary view class declares itself (its __dict__).
AuxDeclaredChoices == SUBSET { "get", "patch", "post" }

\* The values of Meta.excluded_ops sampled for the parent resource.
AuxExcludedChoices == SUBSET { "put", "delete" }

\* __aux_routes__: one to MaxAuxRoutes auxiliary views, in dict order.
AuxRouteChoices == UNION { [1..n -> AuxDeclaredChoices] : n \in 1..MaxAuxRoutes }

\* The operations view_cls inherits through mod_parent_base (line 187) from
\* the resource's cls_view: the methods of ViewsTemplate not excluded.
ParentOps(d) == (CanonicalOps \ d.excluded) \cap AllOpsSet

\* allowed = [op.upper() for op in all_ops if op in view_methods] (line 213).
RECURSIVE AllowedFrom(_, _)
AllowedFrom(view_methods, k) ==
    IF k > Len(AllOps) THEN <<>>
    ELSE (IF AllOps[k] \in view_methods THEN << UpperOp(AllOps[k]) >> ELSE <<>>)
         \o AllowedFrom(view_methods, k + 1)

Allowed(view_methods) == AllowedFrom(view_methods, 1)

\* Lines 214-217 for one view class: each operation the class has (hasattr)
\* without declaring it is set to the rejecting lambda.  The lambda holds no
\* value of `op` or `allowed`: it reads the generator's variables when called.
AuxViewClass(view_methods, parentOps) ==
    [op \in (view_methods \cap AllOpsSet) \cup parentOps |->
        IF op \in view_methods THEN "own" ELSE "reject"]

\* The loop of lines 190-220 from entry i on: the classes built so far and
\* the generator's variables `op` and `allowed` as the last pass left them.
RECURSIVE AuxViewsFrom(_, _, _)
AuxViewsFrom(d, i, acc) ==
    IF i > Len(d.aux) THEN acc
    ELSE AuxViewsFrom(d, i + 1,
            [classes |-> Append(acc.classes, AuxViewClass(d.aux[i], ParentOps(d))),
             op      |-> AllOps[Len(AllOps)],
             allowed |-> Allowed(d.aux[i])])

NoCell == "unbound"

\* tuple(post_view.create_aux_views(cls_view, aux_perm_builder)), line 382.
CreateAuxViewClasses ==
    /\ astatus = "new"
    /\ LET r == AuxViewsFrom(adecl, 1, [classes |-> <<>>, op |-> NoCell, allowed |-> <<>>])
       IN  /\ auxClasses' = r.classes
           /\ cellOp' = r.op
           /\ cellAllowed' = r.allowed
    /\ astatus' = "done"
    /\ UNCHANGED <<adecl, areq, aresp>>

NoAuxRequest == [route |-> 0, op |-> ""]

NoAuxResponse == [status |-> "", method |-> "", allowed |-> <<>>, by |-> ""]

\* web.View dispatch on an auxiliary view class: the class's own handler
\* runs; the rejecting lambda raises HTTPMethodNotAllowed(method=op,
\* allowed_methods=allowed) with the values `op` and `allowed` have when it
\* is called; an operation the class has no attribute for is refused by
\* web.View itself.
AuxResolve(i, op) ==
    LET cls == auxClasses[i]
    IN  IF op \notin DOMAIN cls
        THEN [status |-> "MethodNotAllowed", method |-> op,
              allowed |-> Allowed(DOMAIN cls), by |-> "web.View"]
        ELSE IF cls[op] = "own"
        THEN [status |-> "ok", method |-> op, allowed |-> <<>>, by |-> "own"]
        ELSE [status |-> "MethodNotAllowed", method |-> cellOp,
              allowed |-> cellAllowed, by |-> "lambda"]

AuxDispatch ==
    /\ astatus = "done"
    /\ \E i \in 1..Len(auxClasses), op \in AllOpsSet :
          /\ areq' = [route |-> i, op |-> op]
          /\ aresp' = AuxResolve(i, op)
    /\ UNCHANGED <<adecl, astatus, auxClasses, cellOp, cellAllowed>>
AuxIdle ==
    /\ adecl = [excluded |-> {}, aux |-> <<>>]
    /\ astatus = "new"
    /\ auxClasses = <<>>
    /\ cellOp = NoCell
    /\ cellAllowed = <<>>
    /\ areq = NoAuxRequest
    /\ aresp = NoAuxResponse

-----------------------------------------------------------------------------
(*               DATABASE PROVISIONING (provision_db.setup_db)             *)
-----------------------------------------------------------------------------

\* time_wait = 1 and retries = 10 (lines 50, 51).
InitialTimeWait == 1

InitialRetries == 10

\* A back-off that grows by one second.
NextWaitLinear(w) == w + 1

\* time_wait *= 2 (line 61).
NextWait(w) == w * 2

\* What one pass of the try block (lines 54-57) can do: connect and commit,
\* fail in engine.connect() (conn is not assigned), or fail in
\* conn.execute("COMMIT") (conn is assigned).
AttemptOutcomes == { "connected", "connect_raises", "commit_raises" }

\* Lines 52-57: one connection attempt of the loop `while retries >= 0`.
Attempt ==
    /\ dpc = "loop"
    /\ retries >= 0
    /\ attempts' = attempts + 1
    /\ \E o \in AttemptOutcomes :
          CASE o = "connected" ->
                  /\ conn' = "open"
                  /\ connected' = TRUE
                  /\ dpc' = "check"
            [] o = "connect_raises" ->
                  /\ dpc' = "sleep"
                  /\ UNCHANGED <<conn, connected>>
            [] OTHER ->
                  /\ conn' = "broken"
                  /\ dpc' = "sleep"
                  /\ UNCHANGED connected
    /\ UNCHANGED <<retries, time_wait, slept, created, derror>>

\* Lines 58-62: the except branch, and the loop test that follows it.
SleepAndRetry ==
    /\ dpc = "sleep"
    /\ slept' = Append(slept, time_wait)
    /\ time_wait' = NextWait(time_wait)
    /\ retries' = retries - 1
    /\ dpc' = IF retries - 1 >= 0 THEN "loop" ELSE "check"
    /\ UNCHANGED <<conn, connected, attempts, created, derror>>

\* Lines 63-64: if retries == 0: raise RuntimeError(...).
CheckRetries ==
    /\ dpc = "check"
    /\ IF retries = 0
       THEN dpc' = "raised" /\ derror' = "RuntimeError"
       ELSE dpc' = "create" /\ UNCHANGED derror
    /\ UNCHANGED <<retries, time_wait, conn, connected, slept, attempts, created>>

\* Lines 66-73: CREATE DATABASE on conn.  With conn unbound the statement
\* raises UnboundLocalError, which the except clause re-raises; on a
\* connection the statement succeeds, fails with "already exists" (passed
\* over) or fails otherwise (re-raised).
CreateDatabase ==
    /\ dpc = "create"
    /\ IF conn = "unbound"
       THEN dpc' = "raised" /\ derror' = "UnboundLocalError" /\ UNCHANGED <<conn, created>>
       ELSE \E o \in { "created", "already exists", "raises" } :
               /\ created' = o
               /\ conn' = "closed"
               /\ IF o = "raises"
                  THEN dpc' = "raised" /\ derror' = "DatabaseError"
                  ELSE dpc' = "main" /\ UNCHANGED derror
    /\ UNCHANGED <<retries, time_wait, connected, slept, attempts>>

\* Lines 75-87: the engine of the application database; returns it.
ConnectMain ==
    /\ dpc = "main"
    /\ \E ok \in BOOLEAN :
          IF ok THEN dpc' = "returned" /\ UNCHANGED derror
          ELSE dpc' = "raised" /\ derror' = "DatabaseError"
    /\ UNCHANGED <<retries, time_wait, conn, connected, slept, attempts, created>>

DbIdle ==
    /\ retries = InitialRetries
    /\ time_wait = InitialTimeWait
    /\ conn = "unbound"
    /\ connected = FALSE
    /\ slept = <<>>
    /\ attempts = 0
    /\ dpc = "idle"
    /\ created = ""
    /\ derror = "none"

-----------------------------------------------------------------------------
(*                 PASSWORD RESET (reset_form_context)                     *)
-----------------------------------------------------------------------------

\* Bound: the number of requests in flight.
MaxResetRequests == 3

ResetRequests == 1..MaxResetRequests

\* The checkcodes a request can carry: none, the issued one, another one.
Checkcodes == { "", "issued", "other" }

\* An empty redis reply / a key that does not exist.
NoData == [id |-> 0, swapcode |-> ""]

\* The hash stored when the reset link was issued: the actor and the swapcode.
IssuedData == [id |-> 7, swapcode |-> "swap"]

\* await redis_cli.hgetall(key) (line 83): the hash at the key, empty when
\* the key does not exist.
Hgetall(code) == IF code = "issued" THEN resetKey ELSE NoData

\* Lines 78-85: the checkcode is read, the hash fetched and tested.
FetchReset(i) ==
    /\ rpc[i] = "start"
    /\ IF rcode[i] = ""
       THEN /\ rpc' = [rpc EXCEPT ![i] = "NotFound"]
            /\ UNCHANGED rdata
       ELSE IF Hgetall(rcode[i]) = NoData
       THEN /\ rpc' = [rpc EXCEPT ![i] = "Unauthorized"]
            /\ UNCHANGED rdata
       ELSE /\ rdata' = [rdata EXCEPT ![i] = Hgetall(rcode[i])]
            /\ rpc' = [rpc EXCEPT ![i] = "delete"]
    /\ UNCHANGED <<resetKey, verifyKey, rcode, rswap>>

\* Lines 87-90: swapcode = data.pop('swapcode'); await redis_cli.delete(key).
DeleteReset(i) ==
    /\ rpc[i] = "delete"
    /\ resetKey' = NoData
    /\ rpc' = [rpc EXCEPT ![i] = "set"]
    /\ UNCHANGED <<verifyKey, rcode, rdata, rswap>>

\* Lines 91-92: await redis_cli.set(newkey, data['id'], expire=expire) and
\* return swapcode.
SetVerify(i) ==
    /\ rpc[i] = "set"
    /\ verifyKey' = [swapcode |-> rdata[i].swapcode, id |-> rdata[i].id]
    /\ rswap' = [rswap EXCEPT ![i] = rdata[i].swapcode]
    /\ rpc' = [rpc EXCEPT ![i] = "returned"]
    /\ UNCHANGED <<resetKey, rcode, rdata>>

ResetIdle ==
    /\ resetKey = NoData
    /\ verifyKey = NoData
    /\ rcode = [i \in ResetRequests |-> ""]
    /\ rdata = [i \in ResetRequests |-> NoData]
    /\ rpc = [i \in ResetRequests |-> "idle"]
    /\ rswap = [i \in ResetRequests |-> ""]

-----------------------------------------------------------------------------
(*                  HOOKS (hooks.translate_naive_nested)                   *)
-----------------------------------------------------------------------------

\* Bound: the length of the payload's extraction-field list.
MaxListLen == 3

\* The field names a payload lists: "a" and "b" can have a nested select
\* statement, "x" has none.
PayloadFields == { "a", "b", "x" }

\* The values of schema_cls._nested_select_stmts sampled.
NestedMaps ==
    { <<>>,
      ("a" :> "select_a"),
      ("a" :> "select_a") @@ ("b" :> "select_b") }

\* list.remove(v): the list without the first element equal to v.
RECURSIVE ListRemove(_, _)
ListRemove(l, v) ==
    IF l = <<>> THEN <<>>
    ELSE IF Head(l) = v THEN Tail(l)
    ELSE << Head(l) >> \o ListRemove(Tail(l), v)

\* Lines 11-14: the for loop over the list that its body changes.  The list
\* iterator holds a position; after each pass it moves on by one and the
\* loop ends when the position is past the end of the list as it is then.
RECURSIVE TranslateLoop(_, _, _)
TranslateLoop(l, i, nested_map) ==
    IF i > Len(l) THEN l
    ELSE IF l[i] \in DOMAIN nested_map
    THEN TranslateLoop(Append(ListRemove(l, l[i]), nested_map[l[i]]), i + 1, nested_map)
    ELSE TranslateLoop(l, i + 1, nested_map)

\* wrapped(self, payload), lines 5-15.
Wrapped(schema, payload) ==
    IF ~schema.has THEN payload
    ELSE IF ~payload.has THEN payload
    ELSE [payload EXCEPT !.list = TranslateLoop(payload.list, 1, schema.map)]

TranslateNaiveNested ==
    /\ hpc = "call"
    /\ hresult' = Wrapped(hschema, hpayload)
    /\ hpc' = "returned"
    /\ UNCHANGED <<hschema, hpayload>>

NoPayload == [has |-> FALSE, list |-> <<>>]

HookIdle ==
    /\ hschema = [has |-> FALSE, map |-> <<>>]
    /\ hpayload = NoPayload
    /\ hresult = NoPayload
    /\ hpc = "idle"

-----------------------------------------------------------------------------
(*                           SPECIFICATIONS                                *)
-----------------------------------------------------------------------------

FilterInit ==
    /\ json_spec \in SampleSpecs
    /\ roles = [kind |-> "tuple", elems |-> {}]
    /\ cache = <<>>
    /\ filtered = [ran |-> FALSE, roles |-> [kind |-> "tuple", elems |-> {}], spec |-> <<>>]
    /\ response = {}
    /\ served = "none"
    /\ nreq = 0

FilterIdle ==
    /\ json_spec = <<>>
    /\ roles = [kind |-> "tuple", elems |-> {}]
    /\ cache = <<>>
    /\ filtered = [ran |-> FALSE, roles |-> [kind |-> "tuple", elems |-> {}], spec |-> <<>>]
    /\ response = {}
    /\ served = "none"
    /\ nreq = 0

BuildInit ==
    /\ \E lv \in LenVecs :
         \E a \in SeqsOfLen(lv[1]), b \in SeqsOfLen(lv[2]), c \in SeqsOfLen(lv[3]) :
            decls = (Tables[1] :> a) @@ (Tables[2] :> b) @@ (Tables[3] :> c)
    /\ noViews \in NoViewsChoices
    /\ registryRetyped \in BOOLEAN
    /\ idx = 1
    /\ bstatus = "building"
    /\ regCascade = [t \in TableSet |-> NoList]
    /\ regCherry = [t \in TableSet |-> NoList]
    /\ viewCascade = [t \in TableSet |-> NoView]
    /\ viewCherry = [t \in TableSet |-> NoView]
    /\ joins = [t \in TableSet |-> {}]
    /\ whereStmts = [t \in TableSet |-> {}]
    /\ views = {}

\* One schema declares implied references; the others declare nothing.
ImpliedInit ==
    /\ \E t \in TableSet, fs \in ImpliedSchemas :
          decls = [u \in TableSet |-> IF u = t THEN fs ELSE <<>>]
    /\ noViews = {}
    /\ registryRetyped \in BOOLEAN
    /\ idx = 1
    /\ bstatus = "building"
    /\ regCascade = [t \in TableSet |-> NoList]
    /\ regCherry = [t \in TableSet |-> NoList]
    /\ viewCascade = [t \in TableSet |-> NoView]
    /\ viewCherry = [t \in TableSet |-> NoView]
    /\ joins = [t \in TableSet |-> {}]
    /\ whereStmts = [t \in TableSet |-> {}]
    /\ views = {}

BuildIdle ==
    /\ decls = [t \in TableSet |-> <<>>]
    /\ noViews = {}
    /\ registryRetyped = FALSE
    /\ idx = 1
    /\ bstatus = "building"
    /\ regCascade = [t \in TableSet |-> NoList]
    /\ regCherry = [t \in TableSet |-> NoList]
    /\ viewCascade = [t \in TableSet |-> NoView]
    /\ viewCherry = [t \in TableSet |-> NoView]
    /\ joins = [t \in TableSet |-> {}]
    /\ whereStmts = [t \in TableSet |-> {}]
    /\ views = {}

ClauseInit ==
    /\ c1 \in ClauseSamples
    /\ c2 \in ClauseSamples
    /\ csess \in Sessions
    /\ crow \in Rows
    /\ cpc = "start"
    /\ ceval = [e1 |-> FALSE, e2 |-> FALSE, and |-> FALSE, or |-> FALSE, declared |-> FALSE]

ClauseIdle ==
    /\ c1 = NoClause
    /\ c2 = NoClause
    /\ csess = [actor_id |-> 0]
    /\ crow = [owner |-> 0, int1 |-> 0, int2 |-> 0]
    /\ cpc = "start"
    /\ ceval = [e1 |-> FALSE, e2 |-> FALSE, and |-> FALSE, or |-> FALSE, declared |-> FALSE]

AuthInit ==
    /\ tierDecl \in [Tiers -> TierRules]
    /\ cstatus = "new"
    /\ authTable = <<>>
    /\ req = NoRequest
    /\ phase = "Idle"
    /\ matched = NoMatch
    /\ stored = FALSE

AuthIdle ==
    /\ tierDecl = [t \in Tiers |-> Absent]
    /\ cstatus = "new"
    /\ authTable = <<>>
    /\ req = NoRequest
    /\ phase = "Idle"
    /\ matched = NoMatch
    /\ stored = FALSE

FilterNext ==
    \/ Startup /\ UNCHANGED <<buildVars, clauseVars, authVars, viewVars, shieldVars, auxVars, dbVars, resetVars, hookVars>>
    \/ ActorApispec /\ UNCHANGED <<buildVars, clauseVars, authVars, viewVars, shieldVars, auxVars, dbVars, resetVars, hookVars>>

BuildNext == BuildSchema /\ UNCHANGED <<filterVars, clauseVars, authVars, viewVars, shieldVars, auxVars, dbVars, resetVars, hookVars>>

ViewInit ==
    /\ vdecl \in [route_base : RouteBaseChoices, excluded : ExcludedChoices, aux : AuxChoices]
    /\ vstatus = "new"
    /\ viewClasses = <<>>
    /\ routes = <<>>
    /\ vreq = NoRequestYet
    /\ vresp = NoResponse

ViewIdle ==
    /\ vdecl = [route_base |-> [declared |-> FALSE, value |-> <<>>], excluded |-> {}, aux |-> <<>>]
    /\ vstatus = "new"
    /\ viewClasses = <<>>
    /\ routes = <<>>
    /\ vreq = NoRequestYet
    /\ vresp = NoResponse

ViewNext ==
    \/ CreateViews /\ UNCHANGED <<filterVars, buildVars, clauseVars, authVars, shieldVars, auxVars, dbVars, resetVars, hookVars>>
    \/ CreateAuxViews /\ UNCHANGED <<filterVars, buildVars, clauseVars, authVars, shieldVars, auxVars, dbVars, resetVars, hookVars>>
    \/ Dispatch /\ UNCHANGED <<filterVars, buildVars, clauseVars, authVars, shieldVars, auxVars, dbVars, resetVars, hookVars>>

ShieldInit ==
    /\ sdecl \in [shield : ShieldClasses, authed : AuthedPermissions, private : PrivatePermissions]
    /\ sstatus = "new"
    /\ shields = <<>>

ShieldIdle ==
    /\ sdecl = [shield |-> <<>>, authed |-> {}, private |-> {}]
    /\ sstatus = "new"
    /\ shields = <<>>

ShieldNext == ParseSchemas /\ UNCHANGED <<filterVars, buildVars, clauseVars, authVars, viewVars, auxVars, dbVars, resetVars, hookVars>>

ClauseNext ==
    \/ EvalOperands /\ UNCHANGED <<filterVars, buildVars, authVars, viewVars, shieldVars, auxVars, dbVars, resetVars, hookVars>>
    \/ EvalAnd /\ UNCHANGED <<filterVars, buildVars, authVars, viewVars, shieldVars, auxVars, dbVars, resetVars, hookVars>>
    \/ EvalOr /\ UNCHANGED <<filterVars, buildVars, authVars, viewVars, shieldVars, auxVars, dbVars, resetVars, hookVars>>
    \/ EvalDeclared /\ UNCHANGED <<filterVars, buildVars, authVars, viewVars, shieldVars, auxVars, dbVars, resetVars, hookVars>>

AuthNext ==
    \/ Synthesize /\ UNCHANGED <<filterVars, buildVars, clauseVars, viewVars, shieldVars, auxVars, dbVars, resetVars, hookVars>>
    \/ Receive /\ UNCHANGED <<filterVars, buildVars, clauseVars, viewVars, shieldVars, auxVars, dbVars, resetVars, hookVars>>
    \/ ResolveRole /\ UNCHANGED <<filterVars, buildVars, clauseVars, viewVars, shieldVars, auxVars, dbVars, resetVars, hookVars>>
    \/ MatchTier /\ UNCHANGED <<filterVars, buildVars, clauseVars, viewVars, shieldVars, auxVars, dbVars, resetVars, hookVars>>
    \/ EvalClause /\ UNCHANGED <<filterVars, buildVars, clauseVars, viewVars, shieldVars, auxVars, dbVars, resetVars, hookVars>>
    \/ Decide /\ UNCHANGED <<filterVars, buildVars, clauseVars, viewVars, shieldVars, auxVars, dbVars, resetVars, hookVars>>
    \/ StorageAccess /\ UNCHANGED <<filterVars, buildVars, clauseVars, viewVars, shieldVars, auxVars, dbVars, resetVars, hookVars>>

InitFilter == FilterInit /\ BuildIdle /\ ClauseIdle /\ AuthIdle /\ ViewIdle /\ ShieldIdle /\ AuxIdle /\ DbIdle /\ ResetIdle /\ HookIdle

InitBuild == BuildInit /\ FilterIdle /\ ClauseIdle /\ AuthIdle /\ ViewIdle /\ ShieldIdle /\ AuxIdle /\ DbIdle /\ ResetIdle /\ HookIdle

InitImplied == ImpliedInit /\ FilterIdle /\ ClauseIdle /\ AuthIdle /\ ViewIdle /\ ShieldIdle /\ AuxIdle /\ DbIdle /\ ResetIdle /\ HookIdle

InitClause == ClauseInit /\ FilterIdle /\ BuildIdle /\ AuthIdle /\ ViewIdle /\ ShieldIdle /\ AuxIdle /\ DbIdle /\ ResetIdle /\ HookIdle

InitAuth == AuthInit /\ FilterIdle /\ BuildIdle /\ ClauseIdle /\ ViewIdle /\ ShieldIdle /\ AuxIdle /\ DbIdle /\ ResetIdle /\ HookIdle

InitView == ViewInit /\ FilterIdle /\ BuildIdle /\ ClauseIdle /\ AuthIdle /\ ShieldIdle /\ AuxIdle /\ DbIdle /\ ResetIdle /\ HookIdle

InitShield == ShieldInit /\ FilterIdle /\ BuildIdle /\ ClauseIdle /\ AuthIdle /\ ViewIdle /\ AuxIdle /\ DbIdle /\ ResetIdle /\ HookIdle

SpecFilter == InitFilter /\ [][FilterNext]_vars

SpecBuild == InitBuild /\ [][BuildNext]_vars

SpecImplied == InitImplied /\ [][BuildNext]_vars

SpecClause == InitClause /\ [][ClauseNext]_vars

SpecAuth == InitAuth /\ [][AuthNext]_vars

SpecView == InitView /\ [][ViewNext]_vars

SpecShield == InitShield /\ [][ShieldNext]_vars

AuxInit ==
    /\ adecl \in [excluded : AuxExcludedChoices, aux : AuxRouteChoices]
    /\ astatus = "new"
    /\ auxClasses = <<>>
    /\ cellOp = NoCell
    /\ cellAllowed = <<>>
    /\ areq = NoAuxRequest
    /\ aresp = NoAuxResponse

AuxNext ==
    \/ CreateAuxViewClasses /\ UNCHANGED <<filterVars, buildVars, clauseVars, authVars, viewVars, shieldVars, dbVars, resetVars, hookVars>>
    \/ AuxDispatch /\ UNCHANGED <<filterVars, buildVars, clauseVars, authVars, viewVars, shieldVars, dbVars, resetVars, hookVars>>

InitAux == AuxInit /\ FilterIdle /\ BuildIdle /\ ClauseIdle /\ AuthIdle /\ ViewIdle /\ ShieldIdle /\ DbIdle /\ ResetIdle /\ HookIdle

SpecAux == InitAux /\ [][AuxNext]_vars

\* setup_db on entry to the loop (lines 47-51).
DbInit ==
    /\ retries = InitialRetries
    /\ time_wait = InitialTimeWait
    /\ conn = "unbound"
    /\ connected = FALSE
    /\ slept = <<>>
    /\ attempts = 0
    /\ dpc = "loop"
    /\ created = ""
    /\ derror = "none"

DbNext ==
    \/ Attempt /\ UNCHANGED <<filterVars, buildVars, clauseVars, authVars, viewVars, shieldVars, auxVars, resetVars, hookVars>>
    \/ SleepAndRetry /\ UNCHANGED <<filterVars, buildVars, clauseVars, authVars, viewVars, shieldVars, auxVars, resetVars, hookVars>>
    \/ CheckRetries /\ UNCHANGED <<filterVars, buildVars, clauseVars, authVars, viewVars, shieldVars, auxVars, resetVars, hookVars>>
    \/ CreateDatabase /\ UNCHANGED <<filterVars, buildVars, clauseVars, authVars, viewVars, shieldVars, auxVars, resetVars, hookVars>>
    \/ ConnectMain /\ UNCHANGED <<filterVars, buildVars, clauseVars, authVars, viewVars, shieldVars, auxVars, resetVars, hookVars>>

InitDb == DbInit /\ FilterIdle /\ BuildIdle /\ ClauseIdle /\ AuthIdle /\ ViewIdle /\ ShieldIdle /\ AuxIdle /\ ResetIdle /\ HookIdle

SpecDb == InitDb /\ [][DbNext]_vars

\* setup_db is sequential code: every step of it is taken.
SpecDbFair == InitDb /\ [][DbNext]_vars /\ WF_vars(DbNext)

\* A reset link was issued; the requests arrive with their checkcodes.
ResetInit ==
    /\ resetKey = IssuedData
    /\ verifyKey = NoData
    /\ rcode \in [ResetRequests -> Checkcodes]
    /\ rdata = [i \in ResetRequests |-> NoData]
    /\ rpc = [i \in ResetRequests |-> "start"]
    /\ rswap = [i \in ResetRequests |-> ""]

ResetNext ==
    \/ \E i \in ResetRequests : FetchReset(i) /\ UNCHANGED <<filterVars, buildVars, clauseVars, authVars, viewVars, shieldVars, auxVars, dbVars, hookVars>>
    \/ \E i \in ResetRequests : DeleteReset(i) /\ UNCHANGED <<filterVars, buildVars, clauseVars, authVars, viewVars, shieldVars, auxVars, dbVars, hookVars>>
    \/ \E i \in ResetRequests : SetVerify(i) /\ UNCHANGED <<filterVars, buildVars, clauseVars, authVars, viewVars, shieldVars, auxVars, dbVars, hookVars>>

InitReset == ResetInit /\ FilterIdle /\ BuildIdle /\ ClauseIdle /\ AuthIdle /\ ViewIdle /\ ShieldIdle /\ AuxIdle /\ DbIdle /\ HookIdle

SpecReset == InitReset /\ [][ResetNext]_vars

HookInit ==
    /\ hschema \in { [has |-> FALSE, map |-> <<>>] } \cup { [has |-> TRUE, map |-> m] : m \in NestedMaps }
    /\ hpayload \in { NoPayload }
                    \cup { [has |-> TRUE, list |-> l]
                           : l \in UNION { [1..n -> PayloadFields] : n \in 0..MaxListLen } }
    /\ hresult = NoPayload
    /\ hpc = "call"

HookNext == TranslateNaiveNested /\ UNCHANGED <<filterVars, buildVars, clauseVars, authVars, viewVars, shieldVars, auxVars, dbVars, resetVars>>

InitHook == HookInit /\ FilterIdle /\ BuildIdle /\ ClauseIdle /\ AuthIdle /\ ViewIdle /\ ShieldIdle /\ AuxIdle /\ DbIdle /\ ResetIdle

SpecHook == InitHook /\ [][HookNext]_vars

-----------------------------------------------------------------------------
(*                               CLAIMS                                    *)
-----------------------------------------------------------------------------

\* The role set of an evaluation, whatever collection carries it.
RoleSetOf(r) == r.elems

\* An operation is globally open when it carries no security entry, when its
\* allowed roles contain '*', or when the requester is Admin.
GloballyOpen(op, R) == ~op.hasSec \/ "*" \in op.authed \/ "Admin" \in R

IsKept(i, op) == \E k \in 1..Len(filtered.spec[i].ops) : filtered.spec[i].ops[k] = op

\* C1: for every role set R the filter is evaluated with (the startup value
\* included), an operation of json_spec is kept in the filtered spec if and
\* only if its allowed roles intersect R or it is globally open.
C1_KeptIffIntersectsOrOpen ==
    filtered.ran =>
        \A i \in 1..Len(json_spec) : \A k \in 1..Len(json_spec[i].ops) :
            LET op == json_spec[i].ops[k]
                R  == RoleSetOf(filtered.roles)
            IN  IsKept(i, op) <=> ((op.authed \cap R) # {} \/ GloballyOpen(op, R))

\* C2: what a request for role set R is answered with equals what the
\* filter computes from scratch for the set R.
C2_CachedEqualsFromScratch ==
    served = "request" =>
        response = OutOf(FilterSpec(json_spec, [kind |-> "set", elems |-> RoleSetOf(roles)]))

\* C3: a request reaches the storage layer only once its authorization
\* outcome is decided and is Permitted; a Denied request never reaches it.
C3_StorageOnlyWhenPermitted ==
    /\ stored => phase = "Permitted"
    /\ phase = "Denied" => ~stored

\* A request permitted through an evaluated Checked clause has reached storage.
C3_Witness ==
    /\ stored
    /\ phase = "Permitted"
    /\ matched.clause = OwnerIsActor
    /\ matched.result

\* The roles a tier's declaration grants operation X to.
GrantedBy(t) == DOMAIN Expand(tierDecl[t])

\* C4: when Authed grants X to roles A and Private grants X to roles B,
\* the role sets of the tiers being disjoint, compilation succeeds and the
\* merged table grants X to every role of A and of B, each with the clause
\* its tier declared.
C4_TierUnion ==
    ( /\ cstatus # "new"
      /\ \A t1, t2 \in Tiers : t1 # t2 => GrantedBy(t1) \cap GrantedBy(t2) = {} )
    => /\ cstatus = "ok"
       /\ DOMAIN authTable = UNION { GrantedBy(t) : t \in Tiers }
       /\ \A t \in Tiers : \A r \in GrantedBy(t) :
             authTable[r] = [tier |-> t, clause |-> Expand(tierDecl[t])[r]]

\* Authed and Private both grant X, to disjoint non-empty role sets, and the
\* table has been built.
C4_Witness ==
    /\ cstatus = "ok"
    /\ GrantedBy("Authed") # {}
    /\ GrantedBy("Private") # {}
    /\ GrantedBy("Authed") \cap GrantedBy("Private") = {}
    /\ GrantedBy("Authed") \cup GrantedBy("Private") \subseteq DOMAIN authTable

\* C5: when two tiers declare X for overlapping roles, compilation ends in
\* a configuration error: no table is built and no request is served.
C5_OverlapRejected ==
    ( /\ cstatus # "new"
      /\ \E t1, t2 \in Tiers : t1 # t2 /\ GrantedBy(t1) \cap GrantedBy(t2) # {} )
    => /\ cstatus = "ConfigurationError"
       /\ authTable = <<>>
       /\ phase = "Idle"

\* Authed and Private name a common role for X and compilation was aborted.
C5_Witness ==
    /\ cstatus = "ConfigurationError"
    /\ GrantedBy("Authed") \cap GrantedBy("Private") # {}

\* C6: (C1 & C2) evaluates to the conjunction and (C1 | C2) to the
\* disjunction of the operands' evaluations on every sampled session and
\* row; the declared patch rule groups as (Checked & Open) | Open,
\* evaluates accordingly, and permits row {owner 42, int1 5, int2 15} for
\* actor 42.
C6_ClauseComposition ==
    /\ cpc \in { "and", "or", "declared" } => ceval.and = (ceval.e1 /\ ceval.e2)
    /\ cpc \in { "or", "declared" } => ceval.or = (ceval.e1 \/ ceval.e2)
    /\ PatchRule = Or(And(OwnerIsActor, Int1AtLeast10), Int2Below20)
    /\ cpc = "declared" =>
          /\ ceval.declared =
                ( \/ ( /\ crow.owner = csess.actor_id
                       /\ crow.int1 >= 10 )
                  \/ crow.int2 < 20 )
          /\ ( /\ crow = [owner |-> 42, int1 |-> 5, int2 |-> 15]
               /\ csess.actor_id = 42 )
             => ceval.declared

\* The declared rule has been evaluated on the row {owner 42, int1 5,
\* int2 15} for actor 42, next to two operands that differ on it.
C6_Witness ==
    /\ cpc = "declared"
    /\ crow = [owner |-> 42, int1 |-> 5, int2 |-> 15]
    /\ csess.actor_id = 42
    /\ ceval.e1 # ceval.e2
    /\ ceval.declared

InSeq(e, sq) == \E k \in 1..Len(sq) : sq[k] = e

Count(e, sq) == Cardinality({ k \in 1..Len(sq) : sq[k] = e })

\* The fields a schema declares, as (table, position) pairs.
DeclaredFields == { << t, i >> \in TableSet \X (1..Len(FieldNames)) : i <= Len(decls[t]) }

\* The single-reference relationship classes.
SingleRefKinds == { "ForeignResource", "AutoSessionForeignResource" }

\* C8: after relationship processing of all registered resources, every
\* single-reference relationship field that is not unique has its cascade
\* obligation on the _deletion_cascade of the target's registered schema and
\* no obligation naming the target on the referencing resource.
C8_NonUniqueObligatesTargetOnly ==
    bstatus = "done" =>
        \A tf \in DeclaredFields :
            LET t == tf[1]
                f == FieldNames[tf[2]]
                d == decls[t][tf[2]]
            IN  (d.kind \in SingleRefKinds /\ ~d.unique) =>
                    /\ InSeq(ThisTarget(t, f), regCascade[d.target].items)
                    /\ ~InSeq(LinkedTarget(d, f), regCascade[t].items)
                    /\ ~InSeq(LinkedTarget(d, f), ViewList(viewCascade, regCascade, t))

\* C9: after relationship processing of all registered resources, every
\* single-reference relationship field marked unique has an obligation on
\* the target's registered schema (naming the referencing resource) and one
\* on the list the referencing resource is retyped with (naming the target).
C9_UniqueObligatesBothSides ==
    bstatus = "done" =>
        \A tf \in DeclaredFields :
            LET t == tf[1]
                f == FieldNames[tf[2]]
                d == decls[t][tf[2]]
            IN  (d.kind \in SingleRefKinds /\ d.unique) =>
                    /\ InSeq(ThisTarget(t, f), regCascade[d.target].items)
                    /\ InSeq(LinkedTarget(d, f), ViewList(viewCascade, regCascade, t))

\* The ForeignResources fields that reference table T.
MultiRefsTo(T) ==
    { tf \in DeclaredFields :
        /\ decls[tf[1]][tf[2]].kind = "ForeignResources"
        /\ decls[tf[1]][tf[2]].target = T }

\* C10: after all resources are compiled, for every multi-reference field f
\* of S with target T, the _m2m_cherrypicks of the schema the registry
\* answers for T holds the entry (S table, f, S primary key) exactly once,
\* and T holds one entry per referencing field and no other.
C10_CherryPickOnTarget ==
    bstatus = "done" =>
        \A T \in TableSet :
            /\ \A tf \in MultiRefsTo(T) :
                   Count(CherryPick(tf[1], FieldNames[tf[2]]), regCherry[T].items) = 1
            /\ Len(regCherry[T].items) = Cardinality(MultiRefsTo(T))

\* The routes create_aux_views registered.
AuxRoutesRegistered == { i \in 1..Len(routes) : routes[i].kind = "aux" }

\* The routes create_views registered.
OwnRoutes == { routes[i] : i \in { j \in 1..Len(routes) : routes[j].kind = "own" } }

\* C11: once the auxiliary routes are processed, a resource that declares an
\* auxiliary route whose normalised name ends in list/ has failed to
\* compile, and no auxiliary route is registered at a URL ending in list/.
C11_AuxNameEndingInListFails ==
    vstatus \in { "done", "NameError" } =>
        /\ (\E i \in 1..Len(vdecl.aux) :
                EndsWith(NormalisedAuxName(vdecl.aux[i]), << "list", "/" >>))
              => vstatus = "NameError"
        /\ \A i \in AuxRoutesRegistered : ~EndsWith(routes[i].url, << "list", "/" >>)

\* C12: a POST to /{route_base}/get/ resolves to operation 'get' and to the
\* handler and outcome a GET to /{route_base}/ resolves to, whatever the
\* resource excludes.
C12_PostAsGetSameAsRead ==
    ( /\ vstatus = "done"
      /\ vreq = [method |-> "POST", url |-> BaseResourceUrl(vdecl) \o << "get", "/" >>] )
    => /\ vresp.op = "get"
       /\ vresp = Resolve("GET", BaseResourceUrl(vdecl))

\* The operation a route of the resource serves.
RouteOp(r) ==
    CASE r.view = "cls_view_get_copy" -> "get"
      [] r.view = "cls_view_list_copy" -> "list"
      [] OTHER -> "*"

\* C13: the view of a resource has exactly the canonical operations that
\* are not excluded, the list route exists if and only if 'list' is not
\* excluded, and no route of the resource serves an excluded operation.
C13_ExactlyNonExcludedOps ==
    vstatus # "new" =>
        /\ DOMAIN viewClasses["cls_view"] = CanonicalOps \ vdecl.excluded
        /\ (\E r \in OwnRoutes : r.url = BaseResourceUrl(vdecl) \o << "list", "/" >>)
              <=> "list" \notin vdecl.excluded
        /\ \A r \in OwnRoutes : RouteOp(r) \notin vdecl.excluded

\* /{route_base}/ as the claim words it: the declared route base (default:
\* the lower-cased resource name), slashes removed, lower-cased.
ExpectedBaseUrl ==
    << "/" >>
    \o Lower(Remove(IF vdecl.route_base.declared THEN vdecl.route_base.value
                    ELSE Lower(SchemaName), "/"))
    \o << "/" >>

\* C14: the routes of the resource itself are the base route at
\* /{route_base}/, the read at /{route_base}/get/ and, when registered, the
\* list at /{route_base}/list/, and no other.
C14_OwnRouteUrls ==
    vstatus # "new" =>
        /\ Route("*", ExpectedBaseUrl, "cls_view", "own") \in OwnRoutes
        /\ Route("POST", ExpectedBaseUrl \o << "get", "/" >>, "cls_view_get_copy", "own")
              \in OwnRoutes
        /\ \A r \in OwnRoutes :
              \/ r = Route("*", ExpectedBaseUrl, "cls_view", "own")
              \/ r = Route("POST", ExpectedBaseUrl \o << "get", "/" >>,
                           "cls_view_get_copy", "own")
              \/ r = Route("GET", ExpectedBaseUrl \o << "list", "/" >>,
                           "cls_view_list_copy", "own")

\* The views of a resource whose declared route base holds a slash and an
\* upper-case letter are registered, the list route included.
C14_Witness ==
    /\ vstatus = "done"
    /\ vdecl.route_base.declared
    /\ \E i \in 1..Len(vdecl.route_base.value) : vdecl.route_base.value[i] = "/"
    /\ \E i \in 1..Len(vdecl.route_base.value) : vdecl.route_base.value[i] = "B"
    /\ Cardinality(OwnRoutes) = 3

\* The (operation, entry) pairs the Shield class declares.
ShieldRules ==
    UNION { { << op, sdecl.shield[op][j] >> : j \in 1..Len(sdecl.shield[op]) } :
                 op \in DOMAIN sdecl.shield }

\* The role names an entry's key gives, '*' standing for every system role.
RolesNamed(key) ==
    IF ~key.tuple /\ key.names[1] = "*" THEN ShieldSystemRoles ELSE NamesOf(key)

\* C15: when a Shield rule, of whatever operation the Shield declares,
\* names a role outside the system roles, singly or in a tuple, parsing
\* ends in an error.
C15_UnknownShieldRoleAborts ==
    ( /\ sstatus # "new"
      /\ \E rule \in ShieldRules : \E r \in RolesNamed(rule[2].key) : r \notin ShieldSystemRoles )
    => sstatus = "ValueError"

\* An operation has an authorization rule in the Authed or Private
\* permissions, update standing for patch and put, read for get and list.
HasAuthRule(op) ==
    LET named == sdecl.authed \cup sdecl.private
    IN  \/ op \in named \ { "update", "read" }
        \/ op \in { "patch", "put" } /\ "update" \in named
        \/ op \in { "get", "list" } /\ "read" \in named

\* C16: after parsing, for every operation that is parsed (it has an
\* authorization rule) and every entry (roles -> method) the Shield
\* declares under it, shields records for that operation that each role of
\* the entry requires that method; several entries of one operation are
\* all retained.
C16_EveryShieldEntryRecorded ==
    sstatus = "parsed" =>
        \A rule \in ShieldRules : \A r \in RolesNamed(rule[2].key) :
            HasAuthRule(rule[1]) =>
                /\ rule[1] \in DOMAIN shields
                /\ r \in shields[rule[1]].roles
                /\ shields[rule[1]].method = rule[2].method

\* C17: every operation shields records a requirement for has an
\* authorization rule in the Authed or Private permissions.
C17_ShieldOnlyOnAuthorizedOps ==
    \A op \in DOMAIN shields : HasAuthRule(op)

\* A shield is recorded for patch, whose rule is the one declared as update.
C17_Witness ==
    /\ sstatus = "parsed"
    /\ "patch" \in DOMAIN shields
    /\ "patch" \notin sdecl.authed \cup sdecl.private
    /\ "update" \in sdecl.authed

\* Field i of table t is an implied reference.
IsImplied(t, i) == i <= Len(decls[t]) /\ decls[t][i].kind = "AutoImpliedForeignResource"

IndexOfField(f) == CHOOSE i \in 1..Len(FieldNames) : FieldNames[i] = f

\* The implied references of table t form a cycle: a field implied through
\* itself, or two fields each implied through the other.
ImpliedCycle(t) ==
    \E i \in 1..Len(FieldNames) :
        /\ IsImplied(t, i)
        /\ LET j == IndexOfField(decls[t][i].from_column)
           IN  \/ j = i
               \/ /\ IsImplied(t, j)
                  /\ decls[t][j].from_column = FieldNames[i]

\* C18: a schema whose implied references form a cycle never gets through
\* relationship resolution: compilation does not go past it.
C18_ImpliedCycleRejected ==
    \A k \in 1..Len(Tables) : ImpliedCycle(Tables[k]) => idx <= k /\ bstatus # "done"

\* The position of table t in the registry.
IndexOfTable(t) == CHOOSE k \in 1..Len(Tables) : Tables[k] = t

\* Table t declares a relationship whose target is not registered.
HasUnregisteredTarget(t) ==
    \E i \in 1..Len(decls[t]) :
        decls[t][i].kind # "Field" /\ decls[t][i].target \notin TableSet

\* C19: compilation never gets past a resource that declares a relationship
\* to an unregistered target: no view of that resource is synthesized, its
\* class is not retyped, and compilation does not complete.
C19_UnregisteredTargetAborts ==
    \A t \in TableSet :
        HasUnregisteredTarget(t) =>
            /\ t \notin views
            /\ ~viewCascade[t].made
            /\ idx <= IndexOfTable(t)
            /\ bstatus # "done"

\* Compilation failed on a resource with an unregistered target after the
\* views of an earlier resource were synthesized.
C19_Witness ==
    /\ bstatus = "failed"
    /\ idx > 1
    /\ views # {}
    /\ HasUnregisteredTarget(Tables[idx])

\* The obligations stored on table t: on its registered class and on its
\* retyped class.
ObligationsOn(t) ==
    { regCascade[t].items[k] : k \in 1..Len(regCascade[t].items) }
    \cup { ViewList(viewCascade, regCascade, t)[k]
           : k \in 1..Len(ViewList(viewCascade, regCascade, t)) }

\* e is (field, table holding the field, that table's primary key) of a
\* declared field.
IsSourceTriple(e) ==
    \E tf \in DeclaredFields :
        e = << FieldNames[tf[2]], tf[1], PkOf(tf[1]) >>

\* C20 as stated: after compilation every obligation stored on any
\* resource is (source field, source table, source primary key).
C20_EveryObligationIsSourceTriple ==
    bstatus = "done" => \A t \in TableSet : \A e \in ObligationsOn(t) : IsSourceTriple(e)

\* C20 amended: after compilation every obligation stored on a resource T
\* is either (field, source table, source primary key) of a ForeignResource
\* field that references T, or, for a unique ForeignResource field f of T
\* itself, (target primary key, target table, f).
C20_ObligationShapes ==
    bstatus = "done" =>
        \A t \in TableSet : \A e \in ObligationsOn(t) :
            \/ \E tf \in DeclaredFields :
                  /\ decls[tf[1]][tf[2]].kind = "ForeignResource"
                  /\ decls[tf[1]][tf[2]].target = t
                  /\ e = << FieldNames[tf[2]], tf[1], PkOf(tf[1]) >>
            \/ \E i \in 1..Len(decls[t]) :
                  /\ decls[t][i].kind = "ForeignResource"
                  /\ decls[t][i].unique
                  /\ e = << PkOf(decls[t][i].target), decls[t][i].target, FieldNames[i] >>

\* Compilation is over and a one-to-one relation between two different
\* resources has left its obligation on both of them.
C20_Witness ==
    /\ bstatus = "done"
    /\ \E t \in TableSet : \E i \in 1..Len(decls[t]) :
          /\ decls[t][i].kind = "ForeignResource"
          /\ decls[t][i].unique
          /\ decls[t][i].target # t
          /\ << PkOf(decls[t][i].target), decls[t][i].target, FieldNames[i] >> \in ObligationsOn(t)
          /\ << FieldNames[i], t, PkOf(t) >> \in ObligationsOn(decls[t][i].target)

\* The entries the declared fields of the registry put on table t's
\* _deletion_cascade: this_target of every ForeignResource field that
\* references t (lines 288, 293) and linked_target of every unique
\* ForeignResource field of t itself (line 292).
ImposedCascade(t) ==
    { ThisTarget(tf[1], FieldNames[tf[2]])
      : tf \in { x \in DeclaredFields :
                   /\ decls[x[1]][x[2]].kind = "ForeignResource"
                   /\ decls[x[1]][x[2]].target = t } }
    \cup { LinkedTarget(decls[t][i], FieldNames[i])
           : i \in { j \in 1..Len(decls[t]) :
                       decls[t][j].kind = "ForeignResource" /\ decls[t][j].unique } }

\* The entries the declared fields put on table t's _m2m_cherrypicks
\* (line 272).
ImposedCherry(t) == { CherryPick(tf[1], FieldNames[tf[2]]) : tf \in MultiRefsTo(t) }

\* Entry e is on a list attached to t: the registered class's or the
\* retyped class's.
Attached(e, view, reg, t) ==
    InSeq(e, reg[t].items) \/ InSeq(e, ViewList(view, reg, t))

\* C21: from the moment the view of a resource R is synthesized, R's cascade
\* list and cherry-pick list hold every entry the relationship fields of the
\* registered resources impose on R (so nothing is added to them afterwards
\* by the compilation of other resources), every target being registered.
C21_CompleteAtViewSynthesis ==
    (\A u \in TableSet : ~HasUnregisteredTarget(u)) =>
    \A t \in views :
        /\ \A e \in ImposedCascade(t) : Attached(e, viewCascade, regCascade, t)
        /\ \A e \in ImposedCherry(t) : Attached(e, viewCherry, regCherry, t)

\* The operator of a where statement and of a join predicate template.
OperatorOf(stmt) ==
    IF \E k \in 1..Len(stmt) : stmt[k] = "?&" THEN "?&"
    ELSE IF \E k \in 1..Len(stmt) : stmt[k] = "=" THEN "="
    ELSE "none"

\* C22: once a resource's relationships are processed, each of its
\* ForeignResources fields has a where statement with the containment
\* operator ?& and no join, and each of its ForeignResource fields has a
\* join with an equality predicate and no where statement.
C22_ContainmentForMultiEqualityForSingle ==
    \A t \in TableSet :
        viewCascade[t].made =>
            \A i \in 1..Len(decls[t]) :
                LET f == FieldNames[i]
                    d == decls[t][i]
                    ws == { w \in whereStmts[t] : w[1] = f }
                    js == { j \in joins[t] : j[1] = f }
                IN  /\ d.kind = "ForeignResources" =>
                        /\ ws # {}
                        /\ \A w \in ws : OperatorOf(w[2]) = "?&"
                        /\ js = {}
                    /\ d.kind = "ForeignResource" =>
                        /\ js # {}
                        /\ \A j \in js : j[2] = d.target /\ OperatorOf(j[3]) = "="
                        /\ ws = {}

\* A processed resource declares both a multi-reference field and a plain
\* single-reference field.
C22_Witness ==
    \E t \in TableSet :
        /\ viewCascade[t].made
        /\ \E i, k \in 1..Len(decls[t]) :
              /\ decls[t][i].kind = "ForeignResources"
              /\ decls[t][k].kind = "ForeignResource"
        /\ whereStmts[t] # {}
        /\ joins[t] # {}

SetOf(sq) == { sq[k] : k \in 1..Len(sq) }

\* The obligations and cherry-picks each resource ends with: on the class the
\* registry answers and on the class the resource was retyped to.
FinalSets(rc, rm, vc, vm) ==
    [t \in TableSet |->
        [cascade |-> SetOf(rc[t].items), retypedCascade |-> SetOf(ViewList(vc, rc, t)),
         cherry |-> SetOf(rm[t].items), retypedCherry |-> SetOf(ViewList(vm, rm, t))]]

\* C23: when compilation is over, every resource holds the same set of
\* cascade obligations and cherry-pick entries that it would hold had the
\* registry held the resources in any other order (every target being
\* registered).
C23_ListsIndependentOfOrder ==
    (bstatus = "done" /\ \A u \in TableSet : ~HasUnregisteredTarget(u)) =>
        \A order \in RegistryOrders :
            LET st == Compile(order, registryRetyped)
            IN  FinalSets(st.rc, st.rm, st.vc, st.vm)
                    = FinalSets(regCascade, regCherry, viewCascade, viewCherry)

\* The lists the loop of build_app leaves are the lists Compile computes for
\* the registry's own order.
CompileAgreesWithBuild ==
    bstatus = "done" =>
        LET st == Compile(Tables, registryRetyped)
        IN  /\ st.ok
            /\ st.rc = regCascade /\ st.rm = regCherry
            /\ st.vc = viewCascade /\ st.vm = viewCherry

\* C24: a resource whose Meta.create_views is False has its relationships
\* processed like any other: once the loop has passed it, it is retyped, the
\* obligation or cherry-pick of each of its ForeignResource / ForeignResources
\* fields is on the (other) target resource, and no view of it is synthesized;
\* at the end the lists are those the loop computes whatever the resources
\* without views.
C24_RelationshipsProcessedWithoutViews ==
    /\ \A t \in noViews :
          (idx > IndexOfTable(t)) =>
              /\ t \notin views
              /\ viewCascade[t].made
              /\ \A i \in 1..Len(decls[t]) :
                    LET d == decls[t][i]
                        f == FieldNames[i]
                    IN  /\ (d.kind = "ForeignResource" /\ d.target # t) =>
                              Attached(ThisTarget(t, f), viewCascade, regCascade, d.target)
                        /\ (d.kind = "ForeignResources" /\ d.target # t) =>
                              Attached(CherryPick(t, f), viewCherry, regCherry, d.target)
    /\ bstatus = "done" =>
          LET st == Compile(Tables, registryRetyped)
          IN  /\ FinalSets(st.rc, st.rm, st.vc, st.vm)
                    = FinalSets(regCascade, regCherry, viewCascade, viewCherry)
              /\ views = TableSet \ noViews

\* Compilation is over; a resource without views imposed a cascade obligation
\* on one resource and a cherry-pick on another, and the other resources have
\* their views.
C24_Witness ==
    /\ bstatus = "done"
    /\ \E t \in noViews :
          /\ t \notin views
          /\ views # {}
          /\ \E i, k \in 1..Len(decls[t]) :
                /\ decls[t][i].kind = "ForeignResource" /\ decls[t][i].target # t
                /\ decls[t][k].kind = "ForeignResources" /\ decls[t][k].target # t
                /\ InSeq(ThisTarget(t, FieldNames[i]), regCascade[decls[t][i].target].items)
                /\ InSeq(CherryPick(t, FieldNames[k]), regCherry[decls[t][k].target].items)

\* The request dispatched last asked an auxiliary view for an operation the
\* view does not declare itself but inherits from the resource's view.
InheritedOpRequested ==
    /\ areq.route # 0
    /\ areq.op \notin adecl.aux[areq.route]
    /\ areq.op \in ParentOps(adecl)

\* C25: an operation an auxiliary view inherits without declaring it is
\* answered MethodNotAllowed, the answer names that operation and lists as
\* allowed methods exactly the operations this auxiliary view declares.
C25_InheritedOpRejectedNamingItself ==
    InheritedOpRequested =>
        /\ aresp.status = "MethodNotAllowed"
        /\ aresp.method = areq.op
        /\ SetOf(aresp.allowed) = { UpperOp(o) : o \in adecl.aux[areq.route] }

\* C26: no evaluation of paths_by_roles, for any role set, changes
\* json_spec: the full API description keeps every path and operation.
C26_JsonSpecNeverModified == [][json_spec' = json_spec]_vars

\* A request was answered by a fresh evaluation that removed an operation
\* from the filtered copy, and json_spec still holds that operation.
C26_Witness ==
    /\ served = "request"
    /\ filtered.ran
    /\ \E i \in 1..Len(json_spec) :
          Len(filtered.spec[i].ops) < Len(json_spec[i].ops)

\* setup_db is past the test of line 63.
PastRetriesCheck == dpc \in { "create", "main", "returned", "raised" }

\* C27: once setup_db is past its connection loop, it has raised
\* RuntimeError("Couldn't establish a DB connection") exactly when no
\* attempt succeeded; with a connection it goes on to CREATE DATABASE.
C27_RuntimeErrorIffNoConnection ==
    PastRetriesCheck => ((derror = "RuntimeError") <=> ~connected)

RECURSIVE Pow2(_)
Pow2(n) == IF n = 0 THEN 1 ELSE 2 * Pow2(n - 1)

\* What holds of the loop at every moment: at most 11 attempts, none after
\* a success, one sleep per failed attempt, the k-th of 2^(k-1) seconds.
LoopBounded ==
    /\ attempts <= InitialRetries + 1
    /\ connected => dpc \notin { "loop", "sleep" }
    /\ attempts = Len(slept) + (IF connected \/ dpc = "sleep" THEN 1 ELSE 0)
    /\ retries = InitialRetries - Len(slept)
    /\ \A k \in 1..Len(slept) : slept[k] = Pow2(k - 1)

\* C28: the connection loop makes at most 11 attempts, stops at the first
\* success, sleeps 1, 2, 4, ... seconds after the successive failures, and
\* is always left.
C28_LoopTerminatesWithBackoff ==
    /\ []LoopBounded
    /\ <>(dpc \notin { "loop", "sleep" })

\* All eleven attempts failed, each followed by a sleep (1 to 512 seconds
\* between the attempts), and the loop is left without a connection.
C28_Witness ==
    /\ attempts = InitialRetries + 1
    /\ ~connected
    /\ dpc \notin { "loop", "sleep" }
    /\ Len(slept) = InitialRetries + 1
    /\ slept[InitialRetries] = 512

\* The requests that were handed the swapcode.
Redeemed == { i \in ResetRequests : rpc[i] = "returned" }

\* C29: whatever the interleaving of the requests carrying a checkcode, at
\* most one of them is handed the swapcode, a request that is not is
\* answered Unauthorized once it is over, and after a redemption the reset
\* key is gone and the verify key holds the actor id under the swapcode.
C29_CheckcodeRedeemedOnce ==
    /\ Cardinality(Redeemed) <= 1
    /\ \A j \in ResetRequests \ Redeemed :
          (rcode[j] = "issued" /\ rpc[j] \notin { "start", "delete", "set" }) =>
              rpc[j] = "Unauthorized"
    /\ \A i \in Redeemed :
          /\ resetKey = NoData
          /\ verifyKey = [swapcode |-> rswap[i], id |-> IssuedData.id]

\* C30: when translate_naive_nested has run, a schema without a nested-select
\* map leaves the payload as it was; otherwise the list keeps its length, no
\* entry that has a mapping is left in it, each unmapped field is there as
\* often as before and each mapped statement as often as its field was.
C30_EveryMappedEntryTranslated ==
    hpc = "returned" =>
        IF ~hschema.has THEN hresult = hpayload
        ELSE /\ hresult.has = hpayload.has
             /\ Len(hresult.list) = Len(hpayload.list)
             /\ \A k \in 1..Len(hresult.list) : hresult.list[k] \notin DOMAIN hschema.map
             /\ \A f \in PayloadFields \ DOMAIN hschema.map :
                   Count(f, hresult.list) = Count(f, hpayload.list)
             /\ \A f \in DOMAIN hschema.map :
                   Count(hschema.map[f], hresult.list) = Count(f, hpayload.list)

====
